---------------------------- MODULE Spec2Model ----------------------------
(***************************************************************************)
(* A Game of Thrones board game engine (engine crate): the pending-decision *)
(* state machine advance / apply_action over GameState, the setup, the      *)
(* supply rules, navigation and the per-player view.                        *)
(*                                                                          *)
(* Option<T> is a sequence of length at most one: None is <<>>, Some(x) is  *)
(* <<x>>.  Vec<T> is a sequence.  HashMap<K, V> is a function on its keys.  *)
(* Rust enums are strings.  A &mut GameState function is an operator from   *)
(* the state before to the state after.                                     *)
(***************************************************************************)
EXTENDS Integers, Sequences, FiniteSets, TLC

None == <<>>
Some(x) == <<x>>
IsSome(o) == o # <<>>
IsNone(o) == o = <<>>
Unwrap(o) == o[1]

Min(a, b) == IF a <= b THEN a ELSE b
Max(a, b) == IF a >= b THEN a ELSE b
SaturatingSub(a, b) == IF a >= b THEN a - b ELSE 0
Range(seq) == {seq[i] : i \in 1..Len(seq)}
Contains(seq, x) == \E i \in 1..Len(seq) : seq[i] = x
SelectIdx(seq, Test(_)) == SelectSeq([i \in 1..Len(seq) |-> i], Test)
(* Vec::remove(i) with a 1-based index *)
RemoveAt(seq, i) == SubSeq(seq, 1, i - 1) \o SubSeq(seq, i + 1, Len(seq))
(* first 1-based index of x in seq, 0 when absent (Iterator::position) *)
Position(seq, x) ==
    IF Contains(seq, x) THEN CHOOSE i \in 1..Len(seq) : seq[i] = x /\ \A j \in 1..(i - 1) : seq[j] # x
    ELSE 0

(***************************************************************************)
(* types.rs                                                                 *)
(***************************************************************************)
HouseName_ALL == <<"Stark", "Lannister", "Baratheon", "Greyjoy", "Tyrell", "Martell">>

combat_strength(ut) ==
    CASE ut = "Footman" -> 1
      [] ut = "Knight" -> 2
      [] ut = "Ship" -> 1
      [] ut = "SiegeEngine" -> 0

muster_cost(ut) ==
    CASE ut = "Footman" -> 1
      [] ut = "Knight" -> 2
      [] ut = "Ship" -> 1
      [] ut = "SiegeEngine" -> 2

Unit(ut, h) == [unit_type |-> ut, house |-> h, routed |-> FALSE]

OrderTokenDef(ot, st, star) == [order_type |-> ot, strength |-> st, star |-> star]

(* ORDER_TOKENS[i] of the source is ORDER_TOKENS[i + 1] here *)
ORDER_TOKENS ==
    << OrderTokenDef("March", -1, FALSE), OrderTokenDef("March", 0, FALSE),
       OrderTokenDef("March", 1, TRUE),
       OrderTokenDef("Defense", 1, FALSE), OrderTokenDef("Defense", 1, FALSE),
       OrderTokenDef("Defense", 2, TRUE),
       OrderTokenDef("Support", 0, FALSE), OrderTokenDef("Support", 0, FALSE),
       OrderTokenDef("Support", 1, TRUE),
       OrderTokenDef("Raid", 0, FALSE), OrderTokenDef("Raid", 0, FALSE),
       OrderTokenDef("Raid", 0, TRUE),
       OrderTokenDef("ConsolidatePower", 0, FALSE), OrderTokenDef("ConsolidatePower", 0, FALSE),
       OrderTokenDef("ConsolidatePower", 0, TRUE) >>

Order(token_idx, house) ==
    [order_type |-> ORDER_TOKENS[token_idx + 1].order_type,
     strength |-> ORDER_TOKENS[token_idx + 1].strength,
     star |-> ORDER_TOKENS[token_idx + 1].star,
     house |-> house, token_index |-> token_idx]

star_order_limit(player_count, position) ==
    CASE player_count \in {5, 6} ->
            (CASE position \in {1, 2} -> 3 [] position = 3 -> 2 [] position = 4 -> 1 [] OTHER -> 0)
      [] player_count = 4 ->
            (CASE position \in {1, 2} -> 3 [] position = 3 -> 1 [] OTHER -> 0)
      [] player_count = 3 ->
            (CASE position = 1 -> 3 [] position = 2 -> 2 [] position = 3 -> 1 [] OTHER -> 0)
      [] OTHER -> 0

supply_limits(supply) ==
    CASE Min(supply, 6) = 0 -> <<2, 2>>
      [] Min(supply, 6) = 1 -> <<3, 2>>
      [] Min(supply, 6) = 2 -> <<3, 2, 2>>
      [] Min(supply, 6) = 3 -> <<3, 2, 2, 2>>
      [] Min(supply, 6) = 4 -> <<3, 3, 2, 2>>
      [] Min(supply, 6) = 5 -> <<4, 3, 2, 2>>
      [] Min(supply, 6) = 6 -> <<4, 3, 2, 2, 2>>

(***************************************************************************)
(* map.rs                                                                   *)
(***************************************************************************)
CASTLE_BLACK == 0
KARHOLD == 1
THE_STONY_SHORE == 2
WINTERFELL == 3
WHITE_HARBOR == 4
WIDOWS_WATCH == 5
MOAT_CAILIN == 6
GREYWATER_WATCH == 7
FLINTS_FINGER == 8
SEAGARD == 9
THE_TWINS == 10
THE_FINGERS == 11
MOUNTAINS_OF_THE_MOON == 12
THE_EYRIE == 13
RIVERRUN == 14
LANNISPORT == 15
STONEY_SEPT == 16
SEAROAD_MARCHES == 17
HARRENHAL == 18
CRACKCLAW_POINT == 19
KINGS_LANDING == 20
BLACKWATER == 21
KINGSWOOD == 22
STORMS_END == 23
HIGHGARDEN == 24
THE_REACH == 25
DORNISH_MARCHES == 26
OLDTOWN == 27
THREE_TOWERS == 28
THE_BONEWAY == 29
PRINCES_PASS == 30
YRONWOOD == 31
STARFALL == 32
SALT_SHORE == 33
SUNSPEAR == 34
PYKE == 35
DRAGONSTONE == 36
THE_ARBOR == 37
BAY_OF_ICE == 38
THE_SHIVERING_SEA == 39
SUNSET_SEA == 40
IRONMANS_BAY == 41
THE_GOLDEN_SOUND == 42
THE_NARROW_SEA == 43
BLACKWATER_BAY == 44
SHIPBREAKER_BAY == 45
REDWYNE_STRAITS == 46
WEST_SUMMER_SEA == 47
EAST_SUMMER_SEA == 48
SEA_OF_DORNE == 49
WINTERFELL_PORT == 50
WHITE_HARBOR_PORT == 51
PYKE_PORT == 52
LANNISPORT_PORT == 53
DRAGONSTONE_PORT == 54
STORMS_END_PORT == 55
HIGHGARDEN_PORT == 56
OLDTOWN_PORT == 57
SUNSPEAR_PORT == 58
NUM_AREAS == 59

(* The table AREAS is kept column by column: one definition for each field *)
(* of AreaDef that the engine reads, indexed by the area id.                *)
AREAS_area_type(a) ==
    IF a < BAY_OF_ICE THEN "Land" ELSE IF a < WINTERFELL_PORT THEN "Sea" ELSE "Port"

AREAS_castle ==
    { WHITE_HARBOR, MOAT_CAILIN, FLINTS_FINGER, THE_EYRIE, HARRENHAL,
      CRACKCLAW_POINT, STORMS_END, THE_REACH, YRONWOOD, STARFALL }

AREAS_stronghold ==
    { WINTERFELL, SEAGARD, RIVERRUN, LANNISPORT, KINGS_LANDING, HIGHGARDEN,
      OLDTOWN, SUNSPEAR, PYKE, DRAGONSTONE }

AREAS_supply_icons(a) ==
    IF a \in { LANNISPORT, BLACKWATER, HIGHGARDEN }
    THEN 2
    ELSE IF a \in { THE_STONY_SHORE, WINTERFELL, WIDOWS_WATCH, GREYWATER_WATCH, SEAGARD,
               THE_FINGERS, MOUNTAINS_OF_THE_MOON, THE_EYRIE, RIVERRUN,
               SEAROAD_MARCHES, KINGSWOOD, THREE_TOWERS, PRINCES_PASS, STARFALL,
               SALT_SHORE, SUNSPEAR, PYKE, DRAGONSTONE }
    THEN 1 ELSE 0

AREAS_power_icons(a) ==
    IF a \in { KINGS_LANDING }
    THEN 2
    ELSE IF a \in { CASTLE_BLACK, KARHOLD, WINTERFELL, SEAGARD, THE_TWINS, THE_EYRIE,
               RIVERRUN, STONEY_SEPT, HARRENHAL, KINGSWOOD, DORNISH_MARCHES,
               THE_BONEWAY, PRINCES_PASS, SUNSPEAR, PYKE, DRAGONSTONE, THE_ARBOR }
    THEN 1 ELSE 0

(* AREAS[i].adjacent of the source is AREAS_adjacent[i + 1] here *)
AREAS_adjacent ==
    <<
    (* 0 *) <<WINTERFELL, KARHOLD, BAY_OF_ICE, THE_SHIVERING_SEA>>,
    (* 1 *) <<CASTLE_BLACK, WINTERFELL, THE_SHIVERING_SEA>>,
    (* 2 *) <<WINTERFELL, BAY_OF_ICE>>,
    (* 3 *) <<CASTLE_BLACK, KARHOLD, THE_STONY_SHORE, WHITE_HARBOR, MOAT_CAILIN, BAY_OF_ICE, THE_SHIVERING_SEA>>,
    (* 4 *) <<WINTERFELL, MOAT_CAILIN, WIDOWS_WATCH, THE_NARROW_SEA, THE_SHIVERING_SEA>>,
    (* 5 *) <<WHITE_HARBOR, THE_NARROW_SEA, THE_SHIVERING_SEA>>,
    (* 6 *) <<WINTERFELL, WHITE_HARBOR, GREYWATER_WATCH, SEAGARD, THE_TWINS, THE_NARROW_SEA>>,
    (* 7 *) <<MOAT_CAILIN, SEAGARD, FLINTS_FINGER, BAY_OF_ICE, IRONMANS_BAY>>,
    (* 8 *) <<GREYWATER_WATCH, BAY_OF_ICE, IRONMANS_BAY, SUNSET_SEA>>,
    (* 9 *) <<MOAT_CAILIN, GREYWATER_WATCH, THE_TWINS, RIVERRUN, IRONMANS_BAY>>,
    (* 10 *) <<MOAT_CAILIN, SEAGARD, THE_FINGERS, MOUNTAINS_OF_THE_MOON, THE_NARROW_SEA>>,
    (* 11 *) <<THE_TWINS, MOUNTAINS_OF_THE_MOON, THE_NARROW_SEA>>,
    (* 12 *) <<THE_TWINS, THE_FINGERS, THE_EYRIE, CRACKCLAW_POINT, THE_NARROW_SEA>>,
    (* 13 *) <<MOUNTAINS_OF_THE_MOON, THE_NARROW_SEA>>,
    (* 14 *) <<SEAGARD, LANNISPORT, STONEY_SEPT, HARRENHAL, IRONMANS_BAY, THE_GOLDEN_SOUND>>,
    (* 15 *) <<RIVERRUN, STONEY_SEPT, SEAROAD_MARCHES, THE_GOLDEN_SOUND>>,
    (* 16 *) <<RIVERRUN, LANNISPORT, HARRENHAL, SEAROAD_MARCHES, BLACKWATER>>,
    (* 17 *) <<LANNISPORT, STONEY_SEPT, HIGHGARDEN, BLACKWATER, THE_REACH, SUNSET_SEA, THE_GOLDEN_SOUND, WEST_SUMMER_SEA>>,
    (* 18 *) <<RIVERRUN, STONEY_SEPT, CRACKCLAW_POINT, KINGS_LANDING>>,
    (* 19 *) <<HARRENHAL, KINGS_LANDING, MOUNTAINS_OF_THE_MOON, BLACKWATER_BAY, SHIPBREAKER_BAY, THE_NARROW_SEA>>,
    (* 20 *) <<HARRENHAL, CRACKCLAW_POINT, BLACKWATER, KINGSWOOD, THE_REACH, BLACKWATER_BAY>>,
    (* 21 *) <<KINGS_LANDING, STONEY_SEPT, SEAROAD_MARCHES, CRACKCLAW_POINT, THE_REACH, KINGSWOOD, THE_BONEWAY, DORNISH_MARCHES>>,
    (* 22 *) <<KINGS_LANDING, BLACKWATER, STORMS_END, THE_BONEWAY, THE_REACH, BLACKWATER_BAY, SHIPBREAKER_BAY>>,
    (* 23 *) <<KINGSWOOD, THE_BONEWAY, EAST_SUMMER_SEA, SEA_OF_DORNE, SHIPBREAKER_BAY>>,
    (* 24 *) <<SEAROAD_MARCHES, THE_REACH, DORNISH_MARCHES, OLDTOWN, REDWYNE_STRAITS, WEST_SUMMER_SEA>>,
    (* 25 *) <<HIGHGARDEN, SEAROAD_MARCHES, BLACKWATER, KINGS_LANDING, KINGSWOOD, DORNISH_MARCHES, THE_BONEWAY, OLDTOWN>>,
    (* 26 *) <<HIGHGARDEN, THE_REACH, BLACKWATER, THE_BONEWAY, PRINCES_PASS, OLDTOWN, THREE_TOWERS>>,
    (* 27 *) <<HIGHGARDEN, THE_REACH, DORNISH_MARCHES, THREE_TOWERS, REDWYNE_STRAITS>>,
    (* 28 *) <<OLDTOWN, DORNISH_MARCHES, PRINCES_PASS, REDWYNE_STRAITS, WEST_SUMMER_SEA>>,
    (* 29 *) <<DORNISH_MARCHES, PRINCES_PASS, THE_REACH, KINGSWOOD, BLACKWATER, STORMS_END, YRONWOOD, SEA_OF_DORNE>>,
    (* 30 *) <<DORNISH_MARCHES, THE_BONEWAY, THREE_TOWERS, STARFALL, YRONWOOD>>,
    (* 31 *) <<PRINCES_PASS, THE_BONEWAY, STARFALL, SALT_SHORE, SUNSPEAR, SEA_OF_DORNE>>,
    (* 32 *) <<PRINCES_PASS, YRONWOOD, SALT_SHORE, EAST_SUMMER_SEA, WEST_SUMMER_SEA>>,
    (* 33 *) <<YRONWOOD, STARFALL, SUNSPEAR, EAST_SUMMER_SEA>>,
    (* 34 *) <<YRONWOOD, SALT_SHORE, EAST_SUMMER_SEA, SEA_OF_DORNE>>,
    (* 35 *) <<IRONMANS_BAY>>,
    (* 36 *) <<SHIPBREAKER_BAY>>,
    (* 37 *) <<REDWYNE_STRAITS, WEST_SUMMER_SEA>>,
    (* 38 *) <<CASTLE_BLACK, THE_STONY_SHORE, WINTERFELL, FLINTS_FINGER, GREYWATER_WATCH, SUNSET_SEA>>,
    (* 39 *) <<CASTLE_BLACK, KARHOLD, WINTERFELL, WHITE_HARBOR, WIDOWS_WATCH, THE_NARROW_SEA>>,
    (* 40 *) <<FLINTS_FINGER, SEAROAD_MARCHES, BAY_OF_ICE, IRONMANS_BAY, THE_GOLDEN_SOUND, WEST_SUMMER_SEA>>,
    (* 41 *) <<PYKE, FLINTS_FINGER, GREYWATER_WATCH, SEAGARD, RIVERRUN, SUNSET_SEA, THE_GOLDEN_SOUND>>,
    (* 42 *) <<LANNISPORT, RIVERRUN, SEAROAD_MARCHES, IRONMANS_BAY, SUNSET_SEA>>,
    (* 43 *) <<MOAT_CAILIN, WHITE_HARBOR, WIDOWS_WATCH, THE_TWINS, THE_FINGERS, MOUNTAINS_OF_THE_MOON, THE_EYRIE, CRACKCLAW_POINT, THE_SHIVERING_SEA, SHIPBREAKER_BAY>>,
    (* 44 *) <<KINGS_LANDING, CRACKCLAW_POINT, KINGSWOOD, SHIPBREAKER_BAY>>,
    (* 45 *) <<DRAGONSTONE, CRACKCLAW_POINT, KINGSWOOD, STORMS_END, THE_NARROW_SEA, BLACKWATER_BAY, EAST_SUMMER_SEA>>,
    (* 46 *) <<HIGHGARDEN, OLDTOWN, THE_ARBOR, THREE_TOWERS, WEST_SUMMER_SEA>>,
    (* 47 *) <<HIGHGARDEN, SEAROAD_MARCHES, THREE_TOWERS, THE_ARBOR, STARFALL, SUNSET_SEA, REDWYNE_STRAITS, EAST_SUMMER_SEA>>,
    (* 48 *) <<SUNSPEAR, SALT_SHORE, STARFALL, STORMS_END, WEST_SUMMER_SEA, SEA_OF_DORNE, SHIPBREAKER_BAY>>,
    (* 49 *) <<SUNSPEAR, YRONWOOD, STORMS_END, THE_BONEWAY, EAST_SUMMER_SEA>>,
    (* 50 *) <<WINTERFELL, BAY_OF_ICE>>,
    (* 51 *) <<WHITE_HARBOR, THE_NARROW_SEA>>,
    (* 52 *) <<PYKE, IRONMANS_BAY>>,
    (* 53 *) <<LANNISPORT, THE_GOLDEN_SOUND>>,
    (* 54 *) <<DRAGONSTONE, SHIPBREAKER_BAY>>,
    (* 55 *) <<STORMS_END, SHIPBREAKER_BAY>>,
    (* 56 *) <<HIGHGARDEN, REDWYNE_STRAITS>>,
    (* 57 *) <<OLDTOWN, REDWYNE_STRAITS>>,
    (* 58 *) <<SUNSPEAR, EAST_SUMMER_SEA>>
    >>

AreaIds == 0..(NUM_AREAS - 1)
adjacent(a) == AREAS_adjacent[a + 1]
muster_points(a) == IF a \in AREAS_stronghold THEN 2 ELSE IF a \in AREAS_castle THEN 1 ELSE 0
is_land(a) == AREAS_area_type(a) = "Land"
is_sea(a) == AREAS_area_type(a) = "Sea"
is_port(a) == AREAS_area_type(a) = "Port"
has_castle_or_stronghold(a) == a \in AREAS_castle \/ a \in AREAS_stronghold

initial_garrison_strength(a) ==
    CASE a = KINGS_LANDING -> Some(5)
      [] a = THE_EYRIE -> Some(6)
      [] a \in {DRAGONSTONE, WINTERFELL, LANNISPORT, HIGHGARDEN, SUNSPEAR, PYKE} -> Some(2)
      [] OTHER -> None

(***************************************************************************)
(* cards.rs                                                                 *)
(***************************************************************************)
HouseCard(id, st, sw, fo) == [id |-> id, strength |-> st, swords |-> sw, fortifications |-> fo]

house_cards(house) ==
    CASE house = "Stark" ->
            << HouseCard("EddardStark", 4, 2, 0), HouseCard("RobbStark", 3, 0, 0),
               HouseCard("GreatjonUmber", 2, 2, 0), HouseCard("RooseBolton", 2, 0, 0),
               HouseCard("TheBlackfish", 1, 0, 0), HouseCard("SerRodrikCassel", 1, 0, 2),
               HouseCard("CatelynStark", 0, 0, 0) >>
      [] house = "Lannister" ->
            << HouseCard("TywinLannister", 4, 0, 0), HouseCard("SerGregorClegane", 3, 3, 0),
               HouseCard("SerJaimeLannister", 2, 1, 0), HouseCard("TheHound", 2, 0, 2),
               HouseCard("TyrionLannister", 1, 0, 0), HouseCard("SerKevanLannister", 1, 0, 0),
               HouseCard("CerseiLannister", 0, 0, 0) >>
      [] house = "Baratheon" ->
            << HouseCard("StannisBaratheon", 4, 0, 0), HouseCard("RenlyBaratheon", 3, 0, 0),
               HouseCard("BrienneOfTarth", 2, 1, 1), HouseCard("SerDavosSeaworth", 2, 0, 0),
               HouseCard("Melisandre", 1, 1, 0), HouseCard("SalladhorSaan", 1, 0, 0),
               HouseCard("Patchface", 0, 0, 0) >>
      [] house = "Greyjoy" ->
            << HouseCard("EuronCrowsEye", 4, 1, 0), HouseCard("VictarionGreyjoy", 3, 0, 0),
               HouseCard("BalonGreyjoy", 2, 0, 0), HouseCard("TheonGreyjoy", 2, 0, 0),
               HouseCard("AshaGreyjoy", 1, 0, 0), HouseCard("DagmerCleftjaw", 1, 1, 1),
               HouseCard("AeronDamphair", 0, 0, 0) >>
      [] house = "Tyrell" ->
            << HouseCard("MaceTyrell", 4, 0, 0), HouseCard("SerLorasTyrell", 3, 0, 0),
               HouseCard("SerGarlanTyrell", 2, 2, 0), HouseCard("RandyllTarly", 2, 2, 0),
               HouseCard("MargaeryTyrell", 1, 0, 1), HouseCard("AlesterFlorent", 1, 0, 1),
               HouseCard("QueenOfThorns", 0, 0, 0) >>
      [] house = "Martell" ->
            << HouseCard("TheRedViper", 4, 2, 1), HouseCard("AreoHotah", 3, 0, 1),
               HouseCard("ObaraSand", 2, 1, 0), HouseCard("Darkstar", 2, 1, 0),
               HouseCard("NymeriaSand", 1, 0, 0), HouseCard("ArianneMartell", 1, 0, 0),
               HouseCard("DoranMartell", 0, 0, 0) >>

all_house_card_ids(house) == [i \in 1..Len(house_cards(house)) |-> house_cards(house)[i].id]

(* the first card with this id in the hands of HouseName::ALL, in order *)
get_house_card(id) ==
    CHOOSE c \in UNION {{x @@ [house |-> h] : x \in Range(house_cards(h))} :
                            h \in Range(HouseName_ALL)} : c.id = id

WesterosCard(d, ct, icon) == [deck |-> d, card_type |-> ct, wildling_icon |-> icon]

westeros_deck_1 ==
    << WesterosCard(1, "Supply", FALSE), WesterosCard(1, "Supply", FALSE),
       WesterosCard(1, "Supply", FALSE), WesterosCard(1, "Mustering", FALSE),
       WesterosCard(1, "Mustering", FALSE), WesterosCard(1, "Mustering", FALSE),
       WesterosCard(1, "AThroneOfBlades", TRUE), WesterosCard(1, "AThroneOfBlades", TRUE),
       WesterosCard(1, "WinterIsComing", FALSE), WesterosCard(1, "LastDaysOfSummer", TRUE) >>

westeros_deck_2 ==
    << WesterosCard(2, "ClashOfKings", FALSE), WesterosCard(2, "ClashOfKings", FALSE),
       WesterosCard(2, "ClashOfKings", FALSE), WesterosCard(2, "GameOfThrones", FALSE),
       WesterosCard(2, "GameOfThrones", FALSE), WesterosCard(2, "GameOfThrones", FALSE),
       WesterosCard(2, "DarkWingsDarkWords", TRUE), WesterosCard(2, "DarkWingsDarkWords", TRUE),
       WesterosCard(2, "WinterIsComing", FALSE), WesterosCard(2, "LastDaysOfSummer", TRUE) >>

westeros_deck_3 ==
    << WesterosCard(3, "WildlingAttack", FALSE), WesterosCard(3, "WildlingAttack", FALSE),
       WesterosCard(3, "WildlingAttack", FALSE), WesterosCard(3, "PutToTheSword", TRUE),
       WesterosCard(3, "PutToTheSword", TRUE), WesterosCard(3, "SeaOfStorms", TRUE),
       WesterosCard(3, "RainsOfAutumn", TRUE), WesterosCard(3, "FeastForCrows", TRUE),
       WesterosCard(3, "WebOfLies", TRUE), WesterosCard(3, "StormOfSwords", TRUE) >>

wildling_deck ==
    << "AKingBeyondTheWall", "CrowKillers", "MammothRiders", "MassingOnTheMilkwater",
       "PreemptiveRaid", "RattleshirtsRaiders", "SilenceAtTheWall", "SkinchangerScout",
       "TheHordeDescends" >>

(***************************************************************************)
(* setup.rs                                                                 *)
(***************************************************************************)
HouseSetup(name, home, supply, minp, it, fi, kc, units) ==
    [name |-> name, home_area |-> home, initial_supply |-> supply, minimum_players |-> minp,
     iron_throne |-> it, fiefdoms |-> fi, kings_court |-> kc, starting_units |-> units]

house_setups ==
    << HouseSetup("Stark", WINTERFELL, 1, 3, 3, 4, 2,
           << <<WINTERFELL, <<"Knight", "Footman">> >>, <<WHITE_HARBOR, <<"Footman">> >>,
              <<THE_SHIVERING_SEA, <<"Ship">> >> >>),
       HouseSetup("Lannister", LANNISPORT, 2, 3, 2, 6, 1,
           << <<LANNISPORT, <<"Knight", "Footman">> >>, <<STONEY_SEPT, <<"Footman">> >>,
              <<THE_GOLDEN_SOUND, <<"Ship">> >> >>),
       HouseSetup("Baratheon", DRAGONSTONE, 2, 3, 1, 5, 4,
           << <<DRAGONSTONE, <<"Knight", "Footman">> >>, <<KINGSWOOD, <<"Footman">> >>,
              <<SHIPBREAKER_BAY, <<"Ship", "Ship">> >> >>),
       HouseSetup("Greyjoy", PYKE, 2, 4, 5, 1, 6,
           << <<PYKE, <<"Knight", "Footman">> >>, <<PYKE_PORT, <<"Ship">> >>,
              <<GREYWATER_WATCH, <<"Footman">> >>, <<IRONMANS_BAY, <<"Ship">> >> >>),
       HouseSetup("Tyrell", HIGHGARDEN, 2, 5, 6, 2, 5,
           << <<HIGHGARDEN, <<"Knight", "Footman">> >>, <<DORNISH_MARCHES, <<"Footman">> >>,
              <<REDWYNE_STRAITS, <<"Ship">> >> >>),
       HouseSetup("Martell", SUNSPEAR, 2, 6, 4, 3, 3,
           << <<SUNSPEAR, <<"Knight", "Footman">> >>, <<SALT_SHORE, <<"Footman">> >>,
              <<SEA_OF_DORNE, <<"Ship">> >> >>) >>

(* slice::sort_by_key is a stable sort: insertion of each element after the *)
(* last element whose key is not greater.                                   *)
SortByKey(seq, Key(_)) ==
    LET RECURSIVE Sorted(_)
        Insert(rest, x) ==
            LET At(n) == SubSeq(rest, 1, n) \o <<x>> \o SubSeq(rest, n + 1, Len(rest))
            IN  At(Cardinality({i \in 1..Len(rest) : Key(rest[i]) <= Key(x)}))
        Sorted(q) ==
            IF Len(q) <= 1 THEN q
            ELSE Insert(Sorted(SubSeq(q, 1, Len(q) - 1)), q[Len(q)])
    IN  Sorted(seq)

(* Vec::shuffle with a ChaCha8 generator seeded by `key`.  The generator's   *)
(* stream is not computed: the result is a permutation of the deck that is a *)
(* function of the deck and the key only (stride 7 is coprime to the deck    *)
(* sizes 10 and 9), so equal keys give equal orders and different keys reach *)
(* different top cards.                                                     *)
shuffle(deck, key) ==
    [i \in 1..Len(deck) |-> deck[(((i - 1) * 7 + key) % Len(deck)) + 1]]

blocked_areas ==
    { SUNSPEAR, SALT_SHORE, STARFALL, YRONWOOD, PRINCES_PASS, THE_BONEWAY, THREE_TOWERS,
      DORNISH_MARCHES, HIGHGARDEN, OLDTOWN, THE_ARBOR, SEA_OF_DORNE, EAST_SUMMER_SEA,
      WEST_SUMMER_SEA, REDWYNE_STRAITS, SUNSPEAR_PORT, HIGHGARDEN_PORT, OLDTOWN_PORT }

(* units placed in area a by the playing setups, in setup order *)
RECURSIVE StartingUnits(_, _)
StartingUnits(playing, a) ==
    IF playing = <<>> THEN <<>>
    ELSE LET su == Head(playing).starting_units
             here == SelectSeq(su, LAMBDA e : e[1] = a)
             RECURSIVE Flat(_)
             Flat(es) == IF es = <<>> THEN <<>>
                         ELSE [i \in 1..Len(Head(es)[2]) |-> Unit(Head(es)[2][i], Head(playing).name)]
                              \o Flat(Tail(es))
         IN  Flat(here) \o StartingUnits(Tail(playing), a)

create_initial_state(player_count, seed) ==
    LET playing == SelectSeq(house_setups, LAMBDA s : s.minimum_players <= player_count)
        playing_houses == [i \in 1..Len(playing) |-> playing[i].name]
        SetupOf(h) == playing[Position(playing_houses, h)]
        turn_order == SortByKey(playing_houses, LAMBDA h : SetupOf(h).iron_throne)
        Placed(h, ut) ==
            Cardinality({<<a, i>> \in AreaIds \X (1..2) :
                            /\ i <= Len(StartingUnits(playing, a))
                            /\ StartingUnits(playing, a)[i] = Unit(ut, h)})
        (* the last house to place a unit (or to own the home area) controls it *)
        Control(a) ==
            LET hs == SelectSeq(playing, LAMBDA s :
                          \/ \E e \in Range(s.starting_units) : e[1] = a
                          \/ s.home_area = a)
            IN  IF hs = <<>> THEN None ELSE Some(hs[Len(hs)].name)
        areas == [a \in AreaIds |->
                    [units |-> StartingUnits(playing, a), order |-> None, house |-> Control(a),
                     blocked |-> (player_count = 3 /\ a \in blocked_areas)]]
        houses == [h \in Range(playing_houses) |->
                    [name |-> h,
                     iron_throne |-> SetupOf(h).iron_throne,
                     fiefdoms |-> SetupOf(h).fiefdoms,
                     kings_court |-> SetupOf(h).kings_court,
                     supply |-> SetupOf(h).initial_supply,
                     power |-> 5,
                     available_units |->
                        [footmen |-> 10 - Placed(h, "Footman"), knights |-> 5 - Placed(h, "Knight"),
                         ships |-> 6 - Placed(h, "Ship"),
                         siege_engines |-> 2 - Placed(h, "SiegeEngine")],
                     hand |-> all_house_card_ids(h),
                     discards |-> <<>>,
                     used_order_tokens |-> <<>>]]
        homes == {playing[i].home_area : i \in 1..Len(playing)}
        garrisons == [a \in homes \cup {KINGS_LANDING, THE_EYRIE} |->
                        IF a \in homes /\ IsSome(initial_garrison_strength(a))
                        THEN [house |-> Some((CHOOSE s \in Range(playing) : s.home_area = a).name),
                              strength |-> Unwrap(initial_garrison_strength(a))]
                        ELSE IF a = KINGS_LANDING THEN [house |-> Some("Baratheon"), strength |-> 5]
                        ELSE [house |-> Some("Stark"), strength |-> 6]]
    IN  [round |-> 1, phase |-> "Planning", action_sub_phase |-> "Raid",
         action_player_index |-> 0,
         houses |-> houses, areas |-> areas, turn_order |-> turn_order,
         wildling_threat |-> 2, garrisons |-> garrisons,
         valyrian_steel_blade_used |-> FALSE, messenger_raven_used |-> FALSE,
         westeros_deck_1 |-> shuffle(westeros_deck_1, seed),
         westeros_deck_2 |-> shuffle(westeros_deck_2, seed \div 10),
         westeros_deck_3 |-> shuffle(westeros_deck_3, seed \div 100),
         wildling_deck |-> shuffle(wildling_deck, seed \div 1000),
         order_restrictions |-> <<>>, star_order_restrictions |-> <<>>,
         combat |-> None, bidding |-> None,
         westeros_cards_drawn |-> <<>>, westeros_step |-> 0, muster_house_idx |-> 0,
         seed |-> seed, rng_counter |-> 0,
         pending |-> None, winner |-> None, playing_houses |-> playing_houses]

(***************************************************************************)
(* types.rs: GameState accessors                                            *)
(***************************************************************************)
player_count(s) == Len(s.playing_houses)

TrackPos(s, h, track) ==
    CASE track = "IronThrone" -> s.houses[h].iron_throne
      [] track = "Fiefdoms" -> s.houses[h].fiefdoms
      [] track = "KingsCourt" -> s.houses[h].kings_court

(* areas in index order, as state.areas.iter().enumerate() visits them *)
AreaSeq == [i \in 1..NUM_AREAS |-> i - 1]
AreasWhere(Test(_)) == SelectSeq(AreaSeq, Test)

(***************************************************************************)
(* supply.rs                                                                *)
(***************************************************************************)
(* armies of a house: (area, size) for areas it controls with 2+ units *)
Armies(s, house) ==
    LET Sized(as) == [i \in 1..Len(as) |-> <<as[i], Len(s.areas[as[i]].units)>>]
    IN  Sized(AreasWhere(LAMBDA a : s.areas[a].house = Some(house)
                                    /\ Len(s.areas[a].units) >= 2))

(* sort_unstable_by descending size; slices this short are insertion-sorted, *)
(* which keeps equal sizes in area order                                     *)
ArmiesSorted(s, house) == SortByKey(Armies(s, house), LAMBDA e : 0 - e[2])

check_supply_violation_unsorted(s, house) ==
    LET Exceeds(limits, armies) ==
            \/ Len(armies) > Len(limits)
            \/ \E i \in 1..Len(armies) : armies[i][2] > limits[i]
    IN  Exceeds(supply_limits(Min(s.houses[house].supply, 6)), Armies(s, house))

check_supply_violation(s, house) ==
    LET Exceeds(limits, armies) ==
            \/ Len(armies) > Len(limits)
            \/ \E i \in 1..Len(armies) : armies[i][2] > limits[i]
    IN  Exceeds(supply_limits(Min(s.houses[house].supply, 6)), ArmiesSorted(s, house))

check_all_supply_violations(s) ==
    [i \in 1..Len(s.playing_houses) |->
        <<s.playing_houses[i], check_supply_violation(s, s.playing_houses[i])>>]

RECURSIVE SumSeq(_)
SumSeq(seq) == IF seq = <<>> THEN 0 ELSE Head(seq) + SumSeq(Tail(seq))

calculate_supply(s, house) ==
    LET Icons(as) == SumSeq([i \in 1..Len(as) |-> AREAS_supply_icons(as[i])])
    IN  Min(Icons(AreasWhere(LAMBDA a : s.areas[a].house = Some(house))), 6)

find_violations(s, house) ==
    LET Violations(limits, armies) ==
            LET MaxFor(idx) == IF idx <= Len(limits) THEN limits[idx] ELSE 1
                Listed(bad) ==
                    [k \in 1..Len(bad) |->
                        <<armies[bad[k]][1], armies[bad[k]][2], MaxFor(bad[k])>>]
            IN  Listed(SelectIdx(armies, LAMBDA idx : armies[idx][2] > MaxFor(idx)))
    IN  Violations(supply_limits(Min(s.houses[house].supply, 6)), ArmiesSorted(s, house))

(***************************************************************************)
(* navigation.rs                                                            *)
(***************************************************************************)
has_friendly_ship(s, area, house) ==
    \E i \in 1..Len(s.areas[area].units) :
        s.areas[area].units[i].unit_type = "Ship" /\ s.areas[area].units[i].house = house

(* seas holding a friendly ship that the breadth-first search enqueues *)
RECURSIVE ShipSeas(_, _, _, _)
ShipSeas(s, house, to, visited) ==
    LET more == {b \in AreaIds \ visited :
                    /\ b # to
                    /\ is_sea(b) /\ has_friendly_ship(s, b, house)
                    /\ \E c \in visited : Contains(adjacent(c), b)}
    IN  IF more = {} THEN visited ELSE ShipSeas(s, house, to, visited \cup more)

is_move_valid_from_anywhere(s, from, to, house) ==
    IF s.areas[to].blocked THEN FALSE
    ELSE IF Contains(adjacent(from), to) THEN TRUE
    ELSE IF is_sea(to) THEN FALSE
    ELSE /\ to # from
         /\ \E c \in ShipSeas(s, house, to, {from}) :
               /\ Contains(adjacent(c), to)
               /\ is_sea(c) /\ has_friendly_ship(s, c, house)

(* visited[from] is set before the search starts, so the search skips the   *)
(* destination when it is the area the move starts in                       *)
is_move_valid(s, from, to, house) ==
    IF s.areas[to].blocked THEN FALSE
    ELSE IF Contains(adjacent(from), to) THEN TRUE
    ELSE IF ~is_land(from) THEN FALSE
    ELSE IF is_sea(to) THEN FALSE
    ELSE /\ to # from
         /\ \E c \in ShipSeas(s, house, to, {from}) :
               /\ Contains(adjacent(c), to)
               /\ is_sea(c) /\ has_friendly_ship(s, c, house)

valid_destinations(s, from, house) ==
    AreasWhere(LAMBDA to : to # from /\ is_move_valid(s, from, to, house))

(***************************************************************************)
(* engine.rs: helpers                                                       *)
(***************************************************************************)
(* next_rng increments the counter; the generator it returns is keyed by    *)
(* seed + rng_counter * 6364136223846793005 (mod 2^64), a function of the   *)
(* pair (seed, rng_counter): RngKey stands for that key.                     *)
(* next_rng with the counter running backwards *)
next_rng_back(s) == [s EXCEPT !.rng_counter = @ - 1]

next_rng(s) == [s EXCEPT !.rng_counter = @ + 1]
RngKey(s) == s.seed + s.rng_counter

find_track_holder(s, track) ==
    LET First(hs) == IF hs # <<>> THEN hs[1] ELSE s.turn_order[1]
    IN  First(SelectSeq(s.playing_houses, LAMBDA h : TrackPos(s, h, track) = 1))

get_muster_areas(s, house) ==
    LET Musters(as) == [i \in 1..Len(as) |-> [area_id |-> as[i], points |-> muster_points(as[i])]]
    IN  Musters(AreasWhere(LAMBDA a : /\ s.areas[a].house = Some(house)
                                      /\ has_castle_or_stronghold(a)
                                      /\ ~s.areas[a].blocked))

RECURSIVE advance(_)
RECURSIVE resolve_westeros_card(_, _)
RECURSIVE advance_bidding(_)
RECURSIVE advance_mustering_step(_)

(***************************************************************************)
(* engine.rs: Westeros phase                                                *)
(***************************************************************************)
advance_mustering_step(s) ==
    LET idx == s.muster_house_idx - 1
    IN  IF idx >= Len(s.playing_houses) THEN [s EXCEPT !.muster_house_idx = 0]
        ELSE LET house == s.playing_houses[idx + 1]
                 muster_areas == get_muster_areas(s, house)
             IN  IF muster_areas = <<>>
                 THEN advance_mustering_step([s EXCEPT !.muster_house_idx = @ + 1])
                 ELSE [s EXCEPT !.pending =
                          Some([type |-> "Muster", house |-> house, areas |-> muster_areas])]

(* Vec::pop of one Westeros deck: <<card option, state after>> *)
PopDeck(s, d) ==
    CASE d = 1 -> IF s.westeros_deck_1 = <<>> THEN <<None, s>>
                  ELSE <<Some(s.westeros_deck_1[Len(s.westeros_deck_1)]),
                         [s EXCEPT !.westeros_deck_1 = SubSeq(@, 1, Len(@) - 1)]>>
      [] d = 2 -> IF s.westeros_deck_2 = <<>> THEN <<None, s>>
                  ELSE <<Some(s.westeros_deck_2[Len(s.westeros_deck_2)]),
                         [s EXCEPT !.westeros_deck_2 = SubSeq(@, 1, Len(@) - 1)]>>
      [] d = 3 -> IF s.westeros_deck_3 = <<>> THEN <<None, s>>
                  ELSE <<Some(s.westeros_deck_3[Len(s.westeros_deck_3)]),
                         [s EXCEPT !.westeros_deck_3 = SubSeq(@, 1, Len(@) - 1)]>>
      [] OTHER -> <<None, s>>

ShuffleDeck(s, d, key) ==
    CASE d = 1 -> [s EXCEPT !.westeros_deck_1 = shuffle(@, key)]
      [] d = 2 -> [s EXCEPT !.westeros_deck_2 = shuffle(@, key)]
      [] d = 3 -> [s EXCEPT !.westeros_deck_3 = shuffle(@, key)]
      [] OTHER -> s

draw_westeros_cards(s) ==
    LET Record(s1, drawn) ==
            [s1 EXCEPT !.westeros_cards_drawn = drawn,
                       !.wildling_threat =
                           Min(@ + Cardinality({i \in 1..Len(drawn) : drawn[i].wildling_icon}) * 2,
                               12)]
        Third(p3, drawn) == Record(p3[2], drawn \o p3[1])
        Second(p2, drawn) == Third(PopDeck(p2[2], 3), drawn \o p2[1])
        First(p1) == Second(PopDeck(p1[2], 2), p1[1])
    IN  First(PopDeck([s EXCEPT !.westeros_cards_drawn = <<>>], 1))

resolve_supply_update(s) ==
    LET Ask(s1, house, v) ==
            [s1 EXCEPT !.pending =
                Some([type |-> "Reconcile", house |-> house, area_id |-> v[1],
                      current_size |-> v[2], max_allowed |-> v[3]])]
        Raise(s1, bad) ==
            IF bad = <<>> THEN s1 ELSE Ask(s1, bad[1], find_violations(s1, bad[1])[1])
        Check(s1) ==
            Raise(s1, SelectSeq(s1.playing_houses,
                                LAMBDA h : /\ check_supply_violation(s1, h)
                                           /\ find_violations(s1, h) # <<>>))
    IN  Check([s EXCEPT !.houses = [h \in DOMAIN s.houses |->
                                      [s.houses[h] EXCEPT !.supply = calculate_supply(s, h)]]])

resolve_game_of_thrones(s) ==
    [s EXCEPT !.houses = [h \in DOMAIN s.houses |->
        LET as == AreasWhere(LAMBDA a : s.areas[a].house = Some(h))
        IN  [s.houses[h] EXCEPT !.power = @ + SumSeq([i \in 1..Len(as) |-> AREAS_power_icons(as[i])])]]]

BiddingState(bt, track, remaining, order) ==
    [bidding_type |-> bt, bids |-> <<>>, current_track |-> track, remaining_tracks |-> remaining,
     bid_order |-> order, next_bidder_idx |-> 0]

begin_clash_of_kings(s) ==
    [s EXCEPT !.bidding =
        Some(BiddingState("IronThrone", Some("IronThrone"), <<"Fiefdoms", "KingsCourt">>,
                          s.turn_order))]

begin_wildling_attack(s) ==
    IF s.wildling_threat = 0 THEN s
    ELSE [s EXCEPT !.bidding = Some(BiddingState("Wildling", None, <<>>, s.turn_order))]

WesterosChoice(card_name, chooser, options) ==
    [type |-> "WesterosChoice", card_name |-> card_name, chooser |-> chooser, options |-> options]

resolve_westeros_card(s, card) ==
    LET ct == card.card_type
    IN  CASE ct = "Supply" -> resolve_supply_update(s)
          [] ct = "Mustering" -> [s EXCEPT !.muster_house_idx = 1]
          [] ct = "AThroneOfBlades" ->
                [s EXCEPT !.pending = Some(WesterosChoice("A Throne of Blades",
                    find_track_holder(s, "IronThrone"), <<"Mustering", "Supply">>))]
          [] ct = "ClashOfKings" -> begin_clash_of_kings(s)
          [] ct = "GameOfThrones" -> resolve_game_of_thrones(s)
          [] ct = "DarkWingsDarkWords" ->
                [s EXCEPT !.pending = Some(WesterosChoice("Dark Wings, Dark Words",
                    find_track_holder(s, "KingsCourt"), <<"Clash of Kings", "Game of Thrones">>))]
          [] ct = "WildlingAttack" -> begin_wildling_attack(s)
          [] ct = "PutToTheSword" ->
                [s EXCEPT !.pending = Some(WesterosChoice("Put to the Sword",
                    find_track_holder(s, "Fiefdoms"),
                    <<"Ban March*", "Ban Defense*", "Ban Support*", "Ban Raid*", "Ban CP*">>))]
          [] ct = "SeaOfStorms" -> [s EXCEPT !.order_restrictions = Append(@, "Raid")]
          [] ct = "FeastForCrows" -> [s EXCEPT !.order_restrictions = Append(@, "ConsolidatePower")]
          [] ct = "WebOfLies" -> [s EXCEPT !.order_restrictions = Append(@, "Support")]
          [] ct = "StormOfSwords" -> [s EXCEPT !.order_restrictions = Append(@, "Defense")]
          [] ct = "RainsOfAutumn" -> [s EXCEPT !.star_order_restrictions = Append(@, "March")]
          [] ct = "WinterIsComing" ->
                LET Threat(s2, nc) ==
                        resolve_westeros_card(
                            IF nc.wildling_icon
                            THEN [s2 EXCEPT !.wildling_threat = Min(@ + 2, 12)] ELSE s2,
                            nc)
                    Replace(s1, nc, i) ==
                        Threat(IF i < Len(s1.westeros_cards_drawn)
                               THEN [s1 EXCEPT !.westeros_cards_drawn[i + 1] = nc] ELSE s1,
                               nc)
                    Drawn(p) ==
                        IF IsNone(p[1]) THEN p[2]
                        ELSE Replace(p[2], Unwrap(p[1]), SaturatingSub(p[2].westeros_step, 2))
                    Reshuffle(s1) ==
                        Drawn(PopDeck(ShuffleDeck(s1, card.deck, RngKey(s1)), card.deck))
                IN  Reshuffle(next_rng(s))
          [] ct = "LastDaysOfSummer" -> s

(***************************************************************************)
(* engine.rs: bidding                                                       *)
(***************************************************************************)
BidOf(bidding, h) == IF h \in DOMAIN bidding.bids THEN bidding.bids[h] ELSE 0

(* slice::sort_by is stable: each element goes after the last element that  *)
(* does not compare greater than it                                         *)
SortBy(seq, Gt(_, _)) ==
    LET RECURSIVE Sorted(_)
        Insert(rest, x) ==
            LET At(n) == SubSeq(rest, 1, n) \o <<x>> \o SubSeq(rest, n + 1, Len(rest))
            IN  At(Cardinality({i \in 1..Len(rest) : ~Gt(rest[i], x)}))
        Sorted(q) ==
            IF Len(q) <= 1 THEN q
            ELSE Insert(Sorted(SubSeq(q, 1, Len(q) - 1)), q[Len(q)])
    IN  Sorted(seq)

SetTrackPos(hp, track, position) ==
    CASE track = "IronThrone" -> [hp EXCEPT !.iron_throne = position]
      [] track = "Fiefdoms" -> [hp EXCEPT !.fiefdoms = position]
      [] track = "KingsCourt" -> [hp EXCEPT !.kings_court = position]

resolve_track_bidding_untied(s) ==
    LET bidding == Unwrap(s.bidding)
        track == Unwrap(bidding.current_track)
        NewProfile(sorted, h) ==
            LET Placed(ps) ==
                    IF ps = <<>> THEN s.houses[h]
                    ELSE [SetTrackPos(s.houses[h], track, ps[Len(ps)]) EXCEPT
                             !.power = SaturatingSub(@, SumSeq([k \in 1..Len(ps) |->
                                                                  sorted[ps[k]][2]]))]
            IN  Placed(SelectIdx(sorted, LAMBDA i : sorted[i][1] = h))
        NextTrack(s2) ==
            IF bidding.remaining_tracks # <<>>
            THEN [s2 EXCEPT !.bidding =
                     Some(BiddingState(bidding.remaining_tracks[1],
                                       Some(bidding.remaining_tracks[1]),
                                       Tail(bidding.remaining_tracks), s2.turn_order))]
            ELSE s2
        TurnOrder(s1) ==
            NextTrack(IF track = "IronThrone"
                      THEN [s1 EXCEPT !.turn_order =
                               SortByKey(s1.playing_houses, LAMBDA h : s1.houses[h].iron_throne)]
                      ELSE s1)
        Place(sorted) ==
            TurnOrder([s EXCEPT !.bidding = None,
                                !.houses = [h \in DOMAIN s.houses |-> NewProfile(sorted, h)]])
    IN  Place(SortBy([i \in 1..Len(bidding.bid_order) |->
                        <<bidding.bid_order[i], BidOf(bidding, bidding.bid_order[i]),
                          TrackPos(s, bidding.bid_order[i], track)>>],
                     LAMBDA a, b : a[2] < b[2]))

resolve_track_bidding(s) ==
    LET bidding == Unwrap(s.bidding)
        track == Unwrap(bidding.current_track)
        NewProfile(sorted, h) ==
            LET Placed(ps) ==
                    IF ps = <<>> THEN s.houses[h]
                    ELSE [SetTrackPos(s.houses[h], track, ps[Len(ps)]) EXCEPT
                             !.power = SaturatingSub(@, SumSeq([k \in 1..Len(ps) |->
                                                                  sorted[ps[k]][2]]))]
            IN  Placed(SelectIdx(sorted, LAMBDA i : sorted[i][1] = h))
        NextTrack(s2) ==
            IF bidding.remaining_tracks # <<>>
            THEN [s2 EXCEPT !.bidding =
                     Some(BiddingState(bidding.remaining_tracks[1],
                                       Some(bidding.remaining_tracks[1]),
                                       Tail(bidding.remaining_tracks), s2.turn_order))]
            ELSE s2
        TurnOrder(s1) ==
            NextTrack(IF track = "IronThrone"
                      THEN [s1 EXCEPT !.turn_order =
                               SortByKey(s1.playing_houses, LAMBDA h : s1.houses[h].iron_throne)]
                      ELSE s1)
        Place(sorted) ==
            TurnOrder([s EXCEPT !.bidding = None,
                                !.houses = [h \in DOMAIN s.houses |-> NewProfile(sorted, h)]])
    IN  Place(SortBy([i \in 1..Len(bidding.bid_order) |->
                        <<bidding.bid_order[i], BidOf(bidding, bidding.bid_order[i]),
                          TrackPos(s, bidding.bid_order[i], track)>>],
                     LAMBDA a, b : a[2] < b[2] \/ (a[2] = b[2] /\ a[3] > b[3])))

(* power -= amount (saturating) for each listed house, in order *)
RECURSIVE DeductPower(_, _)
DeductPower(s, pairs) ==
    IF pairs = <<>> THEN s
    ELSE DeductPower([s EXCEPT !.houses[Head(pairs)[1]].power = SaturatingSub(@, Head(pairs)[2])],
                     Tail(pairs))

resolve_wildling_bidding(s) ==
    LET bidding == Unwrap(s.bidding)
        total_bid == SumSeq([i \in 1..Len(bidding.bid_order) |->
                                IF \E j \in 1..(i - 1) : bidding.bid_order[j] = bidding.bid_order[i]
                                THEN 0 ELSE BidOf(bidding, bidding.bid_order[i])])
        entries == [i \in 1..Len(bidding.bid_order) |->
                      <<bidding.bid_order[i], BidOf(bidding, bidding.bid_order[i])>>]
        Victory(s1, highest) ==
            [(IF s1.wildling_deck # <<>>
              THEN [s1 EXCEPT !.wildling_deck = SubSeq(@, 1, Len(@) - 1),
                              !.houses[highest].power = @ + 2]
              ELSE s1) EXCEPT !.wildling_threat = 0]
        Defeat(s1, sorted) ==
            [DeductPower([s1 EXCEPT !.wildling_deck = SubSeq(@, 1, Len(@) - 1),
                                    !.houses[sorted[1][1]].power = SaturatingSub(@, 2)],
                         [i \in 1..(Len(sorted) - 1) |-> <<sorted[i + 1][1], 1>>])
               EXCEPT !.wildling_threat = 2]
        Outcome(s1) ==
            IF total_bid >= s.wildling_threat
            THEN Victory(s1, SortBy(entries, LAMBDA a, b : a[2] < b[2])[1][1])
            ELSE Defeat(s1, SortBy(entries, LAMBDA a, b :
                               a[2] > b[2] \/ (a[2] = b[2] /\ s1.houses[a[1]].iron_throne
                                                               < s1.houses[b[1]].iron_throne)))
    IN  Outcome(DeductPower([s EXCEPT !.bidding = None], entries))

advance_bidding(s) ==
    LET bidding == Unwrap(s.bidding)
        Again(s1) == IF IsSome(s1.bidding) THEN advance_bidding(s1) ELSE s1
    IN  IF bidding.next_bidder_idx < Len(bidding.bid_order)
        THEN [s EXCEPT !.pending =
                 Some([type |-> "Bidding", house |-> bidding.bid_order[bidding.next_bidder_idx + 1],
                       bidding_type |-> bidding.bidding_type, track |-> bidding.current_track])]
        ELSE Again(IF bidding.bidding_type = "Wildling" THEN resolve_wildling_bidding(s)
                   ELSE resolve_track_bidding(s))

(* the loop advancing westeros_step only after a card is resolved without a *)
(* pause: a card that paused is resolved again on re-entry                   *)
RECURSIVE WesterosSteps_reprocess(_)
WesterosSteps_reprocess(s) ==
    LET Go(s4) == WesterosSteps_reprocess([s4 EXCEPT !.westeros_step = @ + 1])
        Mustered(s3, ran) ==
            IF ran /\ (IsSome(s3.pending) \/ s3.muster_house_idx > 0)
            THEN <<s3, TRUE>> ELSE Go(s3)
        Bid(s2, ran) ==
            IF ran /\ (IsSome(s2.pending) \/ IsSome(s2.bidding)) THEN <<s2, TRUE>>
            ELSE Mustered(IF s2.muster_house_idx > 0 THEN advance_mustering_step(s2) ELSE s2,
                          s2.muster_house_idx > 0)
        Resolved(s1) ==
            IF IsSome(s1.pending) THEN <<s1, TRUE>>
            ELSE Bid(IF IsSome(s1.bidding) THEN advance_bidding(s1) ELSE s1, IsSome(s1.bidding))
    IN  IF ~(s.westeros_step >= 1 /\ s.westeros_step <= 3) THEN <<s, FALSE>>
        ELSE IF s.westeros_step - 1 >= Len(s.westeros_cards_drawn)
        THEN Go(s)
        ELSE Resolved(resolve_westeros_card(s, s.westeros_cards_drawn[s.westeros_step]))

(* the while loop of advance_westeros over steps 1..3: <<state, returned>>,  *)
(* returned = TRUE when the loop body left advance_westeros by `return`      *)
RECURSIVE WesterosSteps(_)
WesterosSteps(s) ==
    LET Mustered(s3, ran) ==
            IF ran /\ (IsSome(s3.pending) \/ s3.muster_house_idx > 0)
            THEN <<s3, TRUE>> ELSE WesterosSteps(s3)
        Bid(s2, ran) ==
            IF ran /\ (IsSome(s2.pending) \/ IsSome(s2.bidding)) THEN <<s2, TRUE>>
            ELSE Mustered(IF s2.muster_house_idx > 0 THEN advance_mustering_step(s2) ELSE s2,
                          s2.muster_house_idx > 0)
        Resolved(s1) ==
            IF IsSome(s1.pending) THEN <<s1, TRUE>>
            ELSE Bid(IF IsSome(s1.bidding) THEN advance_bidding(s1) ELSE s1, IsSome(s1.bidding))
    IN  IF ~(s.westeros_step >= 1 /\ s.westeros_step <= 3) THEN <<s, FALSE>>
        ELSE IF s.westeros_step - 1 >= Len(s.westeros_cards_drawn)
        THEN WesterosSteps([s EXCEPT !.westeros_step = @ + 1])
        ELSE Resolved(resolve_westeros_card([s EXCEPT !.westeros_step = @ + 1],
                                            s.westeros_cards_drawn[s.westeros_step]))

advance_westeros(s) ==
    LET Cards(r) ==
            IF r[2] THEN r[1]
            ELSE advance([r[1] EXCEPT !.westeros_cards_drawn = <<>>,
                                      !.westeros_step = 0,
                                      !.phase = "Planning"])
        Mustered(s2, ran) ==
            IF ran /\ (IsSome(s2.pending) \/ s2.muster_house_idx > 0) THEN s2
            ELSE Cards(WesterosSteps(IF s2.westeros_step = 0
                                     THEN [draw_westeros_cards(s2) EXCEPT !.westeros_step = 1]
                                     ELSE s2))
        Bid(s1, ran) ==
            IF ran /\ (IsSome(s1.pending) \/ IsSome(s1.bidding)) THEN s1
            ELSE Mustered(IF s1.muster_house_idx > 0 THEN advance_mustering_step(s1) ELSE s1,
                          s1.muster_house_idx > 0)
    IN  Bid(IF IsSome(s.bidding) THEN advance_bidding(s) ELSE s, IsSome(s.bidding))

(***************************************************************************)
(* engine.rs: planning phase                                                *)
(***************************************************************************)
(* advance_planning asking the houses in the order of playing_houses *)
advance_planning_unordered(s) ==
    [s EXCEPT !.pending = Some([type |-> "PlaceOrders", house |-> s.playing_houses[1]])]

(* advance_planning offering the raven while a house still lacks an order *)
advance_planning_raven_first(s) ==
    LET Ask(needs) ==
            IF ~s.messenger_raven_used
            THEN [s EXCEPT !.messenger_raven_used = TRUE,
                           !.pending = Some([type |-> "MessengerRaven",
                                             house |-> find_track_holder(s, "KingsCourt")])]
            ELSE IF needs # <<>>
            THEN [s EXCEPT !.pending = Some([type |-> "PlaceOrders", house |-> needs[1]])]
            ELSE advance([s EXCEPT !.phase = "Action", !.action_sub_phase = "Raid",
                                   !.action_player_index = 0])
    IN  IF IsSome(s.pending) \/ IsSome(s.winner) THEN s
        ELSE Ask(SelectSeq(s.turn_order, LAMBDA h :
                    \E a \in AreaIds : /\ s.areas[a].house = Some(h)
                                       /\ s.areas[a].units # <<>>
                                       /\ IsNone(s.areas[a].order)))

advance_planning(s) ==
    LET Ask(needs) ==
            IF needs # <<>>
            THEN [s EXCEPT !.pending = Some([type |-> "PlaceOrders", house |-> needs[1]])]
            ELSE IF ~s.messenger_raven_used
            THEN [s EXCEPT !.messenger_raven_used = TRUE,
                           !.pending = Some([type |-> "MessengerRaven",
                                             house |-> find_track_holder(s, "KingsCourt")])]
            ELSE advance([s EXCEPT !.phase = "Action", !.action_sub_phase = "Raid",
                                   !.action_player_index = 0])
    IN  IF IsSome(s.pending) \/ IsSome(s.winner) THEN s
        ELSE Ask(SelectSeq(s.turn_order, LAMBDA h :
                    \E a \in AreaIds : /\ s.areas[a].house = Some(h)
                                       /\ s.areas[a].units # <<>>
                                       /\ IsNone(s.areas[a].order)))

(***************************************************************************)
(* engine.rs: helper functions                                              *)
(***************************************************************************)
OrderIs(area, order_type) == IsSome(area.order) /\ Unwrap(area.order).order_type = order_type
OrderStar(area) == IsSome(area.order) /\ Unwrap(area.order).star

(* find_first_order_area that finds no order *)
find_first_order_area_none(s, house, order_type) == None

find_first_order_area(s, house, order_type) ==
    LET First(as) == IF as = <<>> THEN None ELSE Some(as[1])
    IN  First(AreasWhere(LAMBDA a : s.areas[a].house = Some(house)
                                    /\ OrderIs(s.areas[a], order_type)))

find_raid_targets(s, from, house) ==
    LET is_star == OrderStar(s.areas[from])
    IN  SelectSeq(adjacent(from), LAMBDA adj :
            LET area == s.areas[adj]
            IN  /\ ~(area.house = Some(house) \/ IsNone(area.house))
                /\ IsSome(area.order)
                /\ \/ Unwrap(area.order).order_type \in {"Raid", "Support", "ConsolidatePower"}
                   \/ (Unwrap(area.order).order_type = "Defense" /\ is_star))

find_retreat_areas(s, from, house) ==
    SelectSeq(adjacent(from), LAMBDA adj :
        LET area == s.areas[adj]
        IN  /\ is_land(adj)
            /\ ~area.blocked
            /\ (IsNone(area.house) \/ area.house = Some(house))
            /\ \A i \in 1..Len(area.units) : area.units[i].house = house)

(* the first playing house named the winner, whatever it holds *)
resolve_tiebreaker_first(s) == [s EXCEPT !.winner = Some(s.playing_houses[1])]

resolve_tiebreaker(s) ==
    LET Score(h) ==
            LET as == AreasWhere(LAMBDA a : s.areas[a].house = Some(h))
            IN  SumSeq([i \in 1..Len(as) |-> IF as[i] \in AREAS_stronghold THEN 2
                                              ELSE IF as[i] \in AREAS_castle THEN 1 ELSE 0])
        rankings == [i \in 1..Len(s.playing_houses) |->
                        LET h == s.playing_houses[i]
                        IN  <<h, Score(h), s.houses[h].supply, s.houses[h].power,
                              s.houses[h].iron_throne>>]
        sorted == SortBy(rankings, LAMBDA a, b :
                      \/ a[2] < b[2]
                      \/ (a[2] = b[2] /\ a[3] < b[3])
                      \/ (a[2] = b[2] /\ a[3] = b[3] /\ a[4] < b[4])
                      \/ (a[2] = b[2] /\ a[3] = b[3] /\ a[4] = b[4] /\ a[5] > b[5]))
    IN  [s EXCEPT !.winner = Some(sorted[1][1])]

(* cleanup_round that leaves the round number as it is *)
cleanup_round_same_round(s) ==
    LET Limit(s1) ==
            IF s1.round > 10 THEN resolve_tiebreaker(s1)
            ELSE [s1 EXCEPT !.phase = "Westeros", !.westeros_step = 0]
    IN  Limit([s EXCEPT
                 !.areas = [a \in AreaIds |->
                              [s.areas[a] EXCEPT
                                 !.order = None,
                                 !.units = [i \in 1..Len(s.areas[a].units) |->
                                              [s.areas[a].units[i] EXCEPT !.routed = FALSE]]]],
                 !.houses = [h \in DOMAIN s.houses |->
                               [s.houses[h] EXCEPT !.used_order_tokens = <<>>]],
                 !.valyrian_steel_blade_used = FALSE,
                 !.messenger_raven_used = FALSE,
                 !.order_restrictions = <<>>,
                 !.star_order_restrictions = <<>>])

(* cleanup_round that leaves routed units routed *)
cleanup_round_keeps_routed(s) ==
    LET Limit(s1) ==
            IF s1.round > 10 THEN resolve_tiebreaker(s1)
            ELSE [s1 EXCEPT !.phase = "Westeros", !.westeros_step = 0]
    IN  Limit([s EXCEPT
                 !.areas = [a \in AreaIds |->
                              [s.areas[a] EXCEPT
                                 !.order = None]],
                 !.houses = [h \in DOMAIN s.houses |->
                               [s.houses[h] EXCEPT !.used_order_tokens = <<>>]],
                 !.valyrian_steel_blade_used = FALSE,
                 !.messenger_raven_used = FALSE,
                 !.order_restrictions = <<>>,
                 !.star_order_restrictions = <<>>,
                 !.round = @ + 1])

cleanup_round(s) ==
    LET Limit(s1) ==
            IF s1.round > 10 THEN resolve_tiebreaker(s1)
            ELSE [s1 EXCEPT !.phase = "Westeros", !.westeros_step = 0]
    IN  Limit([s EXCEPT
                 !.areas = [a \in AreaIds |->
                              [s.areas[a] EXCEPT
                                 !.order = None,
                                 !.units = [i \in 1..Len(s.areas[a].units) |->
                                              [s.areas[a].units[i] EXCEPT !.routed = FALSE]]]],
                 !.houses = [h \in DOMAIN s.houses |->
                               [s.houses[h] EXCEPT !.used_order_tokens = <<>>]],
                 !.valyrian_steel_blade_used = FALSE,
                 !.messenger_raven_used = FALSE,
                 !.order_restrictions = <<>>,
                 !.star_order_restrictions = <<>>,
                 !.round = @ + 1])

check_victory(s) ==
    LET Castles(h) == Cardinality({a \in AreaIds :
                          s.areas[a].house = Some(h) /\ has_castle_or_stronghold(a)})
        Declare(winners) ==
            IF winners = <<>> THEN s ELSE [s EXCEPT !.winner = Some(winners[1])]
    IN  Declare(SelectSeq(s.playing_houses, LAMBDA h : Castles(h) >= 7))

(***************************************************************************)
(* engine.rs: action phase                                                  *)
(***************************************************************************)
resolve_single_consolidate_power(s, house, area_id) ==
    IF OrderStar(s.areas[area_id]) /\ has_castle_or_stronghold(area_id)
    THEN [s EXCEPT !.areas[area_id].order = None,
                   !.pending = Some([type |-> "Muster", house |-> house,
                                     areas |-> <<[area_id |-> area_id,
                                                  points |-> muster_points(area_id)]>>])]
    ELSE [s EXCEPT !.houses[house].power = @ + 1 + AREAS_power_icons(area_id),
                   !.areas[area_id].order = None]

SubPhaseOrder(sub) ==
    CASE sub = "Raid" -> "Raid" [] sub = "March" -> "March"
      [] sub = "ConsolidatePower" -> "ConsolidatePower"

NextSubPhase(sub) ==
    CASE sub = "Raid" -> "March" [] sub = "March" -> "ConsolidatePower"
      [] sub = "ConsolidatePower" -> "Done"

(* the outer loop of advance_action_phase *)
RECURSIVE ActionLoop(_)
ActionLoop(s) ==
    LET pc == Len(s.playing_houses)
        kind == SubPhaseOrder(s.action_sub_phase)
        Finish(s1) == IF IsNone(s1.winner) THEN advance(s1) ELSE s1
        Resolve(idx, house, from) ==
            CASE s.action_sub_phase = "Raid" ->
                   [s EXCEPT !.action_player_index = idx,
                             !.pending = Some([type |-> "ChooseRaid", house |-> house,
                                  from_area |-> from,
                                  valid_targets |-> find_raid_targets(s, from, house)])]
              [] s.action_sub_phase = "March" ->
                   [s EXCEPT !.action_player_index = idx,
                             !.pending = Some([type |-> "ChooseMarch", house |-> house,
                                  from_area |-> from,
                                  valid_destinations |-> valid_destinations(s, from, house)])]
              [] s.action_sub_phase = "ConsolidatePower" ->
                   ActionLoop([resolve_single_consolidate_power(s, house, from)
                                  EXCEPT !.action_player_index = (idx + 1) % pc])
        Turn(idx) ==
            Resolve(idx, s.turn_order[idx + 1],
                    Unwrap(find_first_order_area(s, s.turn_order[idx + 1], kind)))
        (* first offset from action_player_index whose house has an order of the kind *)
        Scan(hits) ==
            IF hits = <<>>
            THEN ActionLoop([s EXCEPT !.action_player_index = 0,
                                      !.action_sub_phase = NextSubPhase(@)])
            ELSE Turn((s.action_player_index + hits[1]) % pc)
    IN  IF s.action_sub_phase = "Done" THEN Finish(cleanup_round(s))
        ELSE Scan(SelectSeq([c \in 1..pc |-> c - 1], LAMBDA c :
                     IsSome(find_first_order_area(
                         s, s.turn_order[((s.action_player_index + c) % pc) + 1], kind))))

(* advance_action_phase that resolves nothing *)
advance_action_phase_idle(s) == s

advance_action_phase(s) ==
    IF IsSome(s.pending) \/ IsSome(s.winner) THEN s ELSE ActionLoop(s)

(***************************************************************************)
(* engine.rs: combat                                                        *)
(***************************************************************************)
RECURSIVE advance_combat(_)
RECURSIVE resolve_combat_final(_)

SetCombat(s, field, value) ==
    [s EXCEPT !.combat = Some([Unwrap(s.combat) EXCEPT ![field] = value])]

(* Tyrion's cancellation sending the combat back to Cards for a new card *)
TyrionCancel_reselect(s, house, old_card, card_field) ==
    LET s1 == SetCombat(SetCombat(s, "tyrion_resolved", TRUE), "phase", "Cards")
        pos == Position(s1.houses[house].discards, old_card)
        s2 == [s1 EXCEPT !.houses[house].hand = Append(@, old_card),
                         !.houses[house].discards = IF pos > 0 THEN RemoveAt(@, pos) ELSE @]
    IN  [SetCombat(s2, card_field, None) EXCEPT
            !.pending = Some([type |-> "SelectHouseCard", house |-> house,
                              available_cards |-> s2.houses[house].hand])]

(* Tyrion's cancellation without the mark that it was done *)
TyrionCancel_unmarked(s, house, old_card, card_field) ==
    LET pos == Position(s.houses[house].discards, old_card)
        s2 == [s EXCEPT !.houses[house].hand = Append(@, old_card),
                        !.houses[house].discards = IF pos > 0 THEN RemoveAt(@, pos) ELSE @]
    IN  [SetCombat(s2, card_field, None) EXCEPT
            !.pending = Some([type |-> "TyrionReplace", opponent |-> house])]

(* Tyrion cancels `house`'s card: back to the hand, out of the discards *)
TyrionCancel(s, house, old_card, card_field) ==
    LET s1 == SetCombat(s, "tyrion_resolved", TRUE)
        pos == Position(s1.houses[house].discards, old_card)
        s2 == [s1 EXCEPT !.houses[house].hand = Append(@, old_card),
                         !.houses[house].discards = IF pos > 0 THEN RemoveAt(@, pos) ELSE @]
    IN  [SetCombat(s2, card_field, None) EXCEPT
            !.pending = Some([type |-> "TyrionReplace", opponent |-> house])]

advance_combat(s) ==
    IF IsSome(s.pending) \/ IsSome(s.winner) THEN s
    ELSE IF IsNone(s.combat) THEN advance([s EXCEPT !.phase = "Action"])
    ELSE
    LET c == Unwrap(s.combat)
        attacker == c.attacker
        defender == c.defender
    IN  CASE c.phase = "Support" ->
               IF c.pending_support_houses # <<>>
               THEN [s EXCEPT !.pending =
                        Some([type |-> "SupportDeclaration",
                              house |-> c.pending_support_houses[1][2],
                              area_id |-> c.pending_support_houses[1][1],
                              attacker |-> attacker, defender |-> defender])]
               ELSE advance_combat(SetCombat(s, "phase", "Cards"))
          [] c.phase = "Cards" ->
               IF IsNone(c.attacker_card)
               THEN IF s.houses[attacker].hand = <<>>
                    THEN advance_combat(SetCombat(s, "attacker_card", Some("EddardStark")))
                    ELSE [s EXCEPT !.pending =
                             Some([type |-> "SelectHouseCard", house |-> attacker,
                                   available_cards |-> s.houses[attacker].hand])]
               ELSE IF IsNone(c.defender_card)
               THEN IF s.houses[defender].hand = <<>>
                    THEN advance_combat(SetCombat(s, "defender_card", Some("EddardStark")))
                    ELSE [s EXCEPT !.pending =
                             Some([type |-> "SelectHouseCard", house |-> defender,
                                   available_cards |-> s.houses[defender].hand])]
               ELSE advance_combat(SetCombat(s, "phase", "PreCombat"))
          [] c.phase = "PreCombat" ->
               LET atk_card == Unwrap(c.attacker_card)
                   def_card == Unwrap(c.defender_card)
               IN  IF ~c.tyrion_resolved /\ atk_card = "TyrionLannister"
                   THEN TyrionCancel(s, defender, def_card, "defender_card")
                   ELSE IF ~c.tyrion_resolved /\ def_card = "TyrionLannister"
                   THEN TyrionCancel(s, attacker, atk_card, "attacker_card")
                   ELSE
                   LET s1 == SetCombat(s, "tyrion_resolved", TRUE)
                   IN  IF ~c.aeron_resolved /\ atk_card = "AeronDamphair"
                                            /\ s1.houses[attacker].power >= 2
                       THEN [SetCombat(s1, "aeron_resolved", TRUE) EXCEPT
                                !.pending = Some([type |-> "AeronSwap", house |-> attacker])]
                       ELSE IF ~c.aeron_resolved /\ def_card = "AeronDamphair"
                                                 /\ s1.houses[defender].power >= 2
                       THEN [SetCombat(s1, "aeron_resolved", TRUE) EXCEPT
                                !.pending = Some([type |-> "AeronSwap", house |-> defender])]
                       ELSE advance_combat(
                                SetCombat(SetCombat(s1, "aeron_resolved", TRUE),
                                          "phase", "Resolution"))
          [] c.phase = "Resolution" ->
               LET blade_holder == find_track_holder(s, "Fiefdoms")
               IN  IF ~s.valyrian_steel_blade_used
                      /\ (blade_holder = attacker \/ blade_holder = defender)
                   THEN [SetCombat(s, "phase", "PostCombat") EXCEPT
                            !.pending = Some([type |-> "UseValyrianBlade",
                                              house |-> blade_holder])]
                   ELSE advance_combat(SetCombat(s, "phase", "PostCombat"))
          [] c.phase = "PostCombat" -> resolve_combat_final(s)

begin_combat(s, attacker, defender, area_id, attacking_units, march_from) ==
    LET SupportAt(adj) == OrderIs(s.areas[adj], "Support")
        adj_areas == adjacent(area_id)
        third == SelectSeq(adj_areas, LAMBDA adj :
                    /\ SupportAt(adj) /\ IsSome(s.areas[adj].house)
                    /\ Unwrap(s.areas[adj].house) # attacker
                    /\ Unwrap(s.areas[adj].house) # defender)
        support_houses == [i \in 1..Len(third) |-> <<third[i], Unwrap(s.areas[third[i]].house)>>]
        own == {adj \in Range(adj_areas) :
                   SupportAt(adj) /\ s.areas[adj].house \in {Some(attacker), Some(defender)}}
    IN  [s EXCEPT
           !.combat = Some(
              [attacker |-> attacker, defender |-> defender, area_id |-> area_id,
               attacking_units |-> attacking_units,
               defending_units |-> s.areas[area_id].units,
               attacker_card |-> None, defender_card |-> None,
               attacker_strength |-> 0, defender_strength |-> 0,
               march_from_area |-> Some(march_from),
               attacker_used_blade |-> FALSE, defender_used_blade |-> FALSE,
               support_decisions |->
                   [adj \in own |-> IF s.areas[adj].house = Some(attacker)
                                    THEN "Attacker" ELSE "Defender"],
               phase |-> IF support_houses = <<>> THEN "Cards" ELSE "Support",
               aeron_resolved |-> FALSE, tyrion_resolved |-> FALSE,
               pending_support_houses |-> support_houses]),
           !.phase = "Combat"]

PoolField(ut) ==
    CASE ut = "Footman" -> "footmen" [] ut = "Knight" -> "knights"
      [] ut = "Ship" -> "ships" [] ut = "SiegeEngine" -> "siege_engines"

(* the units leave the board without going back to the pool *)
ReturnToPool_lost(s, house, units) == s

(* available_units.get_mut(unit_type) += 1 for each unit of the list *)
RECURSIVE ReturnToPool(_, _, _)
ReturnToPool(s, house, units) ==
    IF units = <<>> THEN s
    ELSE ReturnToPool(
            [s EXCEPT !.houses[house].available_units[PoolField(Head(units).unit_type)] = @ + 1],
            house, Tail(units))

UnitsStrength(units) == SumSeq([i \in 1..Len(units) |-> combat_strength(units[i].unit_type)])

(* Roose Bolton goes back from the discards to the hand *)
RooseReturns(s, house) ==
    LET pos == Position(s.houses[house].discards, "RooseBolton")
    IN  IF pos > 0
        THEN [s EXCEPT !.houses[house].discards = RemoveAt(@, pos),
                       !.houses[house].hand = Append(@, "RooseBolton")]
        ELSE s

(* Tywin Lannister: the winner takes up to 2 power from the loser *)
TywinSteals(s, winner, loser) ==
    LET steal == Min(s.houses[loser].power, 2)
        s1 == [s EXCEPT !.houses[loser].power = @ - steal]
    IN  [s1 EXCEPT !.houses[winner].power = @ + steal]

(* finalize_combat leaving the march order on the origin area *)
finalize_combat_keeps_order(s) ==
    check_victory([s EXCEPT !.combat = None, !.phase = "Action",
                            !.action_player_index = (@ + 1) % Len(s.playing_houses)])

finalize_combat(s) ==
    LET Close(s1) ==
            check_victory([s1 EXCEPT !.combat = None, !.phase = "Action",
                                     !.action_player_index = (@ + 1) % Len(s.playing_houses)])
    IN  Close(IF IsSome(s.combat) /\ IsSome(Unwrap(s.combat).march_from_area)
              THEN [s EXCEPT !.areas[Unwrap(Unwrap(s.combat).march_from_area)].order = None]
              ELSE s)

(* the card played by a side, or a card of no strength when there is none *)
CardPlayed(card) ==
    IF IsSome(card) THEN get_house_card(Unwrap(card))
    ELSE [strength |-> 0, swords |-> 0, fortifications |-> 0]

(* strengths of both sides as resolve_combat_final computes them: <<atk, def>> *)
CombatTotals(s) ==
    LET c == Unwrap(s.combat)
        atk_unit_str == SumSeq([i \in 1..Len(c.attacking_units) |->
                           IF c.attacking_units[i].unit_type = "SiegeEngine"
                              /\ has_castle_or_stronghold(c.area_id)
                           THEN 4 ELSE combat_strength(c.attacking_units[i].unit_type)])
        def_unit_str == UnitsStrength(c.defending_units)
        CardStr(side) == CardPlayed(IF side = "Attacker" THEN c.attacker_card
                                    ELSE c.defender_card).strength
        march_bonus == IF IsSome(c.march_from_area)
                          /\ IsSome(s.areas[Unwrap(c.march_from_area)].order)
                       THEN Unwrap(s.areas[Unwrap(c.march_from_area)].order).strength ELSE 0
        defense_bonus == IF OrderIs(s.areas[c.area_id], "Defense")
                         THEN Unwrap(s.areas[c.area_id].order).strength ELSE 0
        garrison_str == IF c.area_id \in DOMAIN s.garrisons
                           /\ s.garrisons[c.area_id].house = Some(c.defender)
                        THEN s.garrisons[c.area_id].strength ELSE 0
        SupportTotal(a) == (IF IsSome(s.areas[a].order) THEN Unwrap(s.areas[a].order).strength
                            ELSE 0) + UnitsStrength(s.areas[a].units)
        SupportFor(side) ==
            SumSeq([a \in 1..NUM_AREAS |->
                       IF (a - 1) \in DOMAIN c.support_decisions
                          /\ c.support_decisions[a - 1] = side
                       THEN SupportTotal(a - 1) ELSE 0])
        Ability(side) ==
            IF (IF side = "Attacker" THEN c.attacker_card ELSE c.defender_card)
                  = Some("CatelynStark")
            THEN Len(s.houses[IF side = "Attacker" THEN c.attacker ELSE c.defender].discards)
            ELSE 0
        Blade(side) ==
            IF (IF side = "Attacker" THEN c.attacker_used_blade ELSE c.defender_used_blade)
            THEN 1 ELSE 0
        Side(side) == CardStr(side) + SupportFor(side) + Blade(side) + Ability(side)
    IN  << atk_unit_str + march_bonus + Side("Attacker"),
           def_unit_str + defense_bonus + garrison_str + Side("Defender") >>

(* the attacker wins only with the greater total: every tie to the defender *)
AttackerWins_strict(s, totals) == totals[1] > totals[2]

AttackerWins(s, totals) ==
    LET c == Unwrap(s.combat)
    IN  \/ totals[1] > totals[2]
        \/ (totals[1] = totals[2] /\ s.houses[c.attacker].fiefdoms < s.houses[c.defender].fiefdoms)

Pend(s, p) == check_victory([s EXCEPT !.pending = Some(p)])

resolve_combat_final(s) ==
    IF IsNone(s.combat) THEN [s EXCEPT !.phase = "Action"]
    ELSE
    LET c == Unwrap(s.combat)
        attacker == c.attacker
        defender == c.defender
        area_id == c.area_id
        (* the attacker won; s4 has the casualties, the conquest and the cards applied *)
        AfterConquest(s4, remaining_defenders, retreat_options) ==
            LET NoRetreat(s5) ==
                    IF c.attacker_card = Some("Patchface") /\ s5.houses[defender].hand # <<>>
                    THEN Pend(s5, [type |-> "PatchfaceDiscard", opponent |-> defender,
                                   visible_cards |-> s5.houses[defender].hand])
                    ELSE IF c.defender_card = Some("DoranMartell")
                    THEN Pend(s5, [type |-> "DoranChooseTrack", opponent |-> attacker])
                    ELSE finalize_combat(s5)
            IN  IF c.attacker_card = Some("CerseiLannister")
                THEN Pend(s4, [type |-> "CerseiRemoveOrder", opponent |-> defender])
                ELSE IF c.attacker_card = Some("RobbStark") /\ retreat_options # <<>>
                        /\ remaining_defenders # <<>>
                THEN Pend(s4, [type |-> "RobbRetreat", house |-> attacker,
                               possible_areas |-> retreat_options])
                ELSE IF remaining_defenders # <<>> /\ retreat_options # <<>>
                THEN Pend(s4, [type |-> "Retreat", house |-> defender,
                               units |-> remaining_defenders, from_area |-> area_id,
                               possible_areas |-> retreat_options])
                ELSE NoRetreat(IF remaining_defenders # <<>>
                               THEN ReturnToPool(s4, defender, remaining_defenders) ELSE s4)
        AttackerWon(s0, killed) ==
            LET Retreats(s4) ==
                    AfterConquest(s4,
                        SubSeq(c.defending_units, killed + 1, Len(c.defending_units)),
                        find_retreat_areas(s4, area_id, defender))
                Tywin(s3) == Retreats(IF c.attacker_card = Some("TywinLannister")
                                      THEN TywinSteals(s3, attacker, defender) ELSE s3)
                Roose(s2) == Tywin(IF c.defender_card = Some("RooseBolton")
                                   THEN RooseReturns(s2, defender) ELSE s2)
                Conquer(s1) ==
                    Roose([s1 EXCEPT !.areas[area_id].units =
                                         SelectSeq(@, LAMBDA u : u.house # defender)
                                         \o c.attacking_units,
                                     !.areas[area_id].house = Some(attacker)])
            IN  Conquer(ReturnToPool(s0, defender, SubSeq(c.defending_units, 1, killed)))
        (* the defender won; s3 has the casualties and the cards applied *)
        AfterDefence(s3, remaining_attackers) ==
            LET from == IF IsSome(c.march_from_area) THEN Unwrap(c.march_from_area)
                        ELSE area_id
                Routed(s4) ==
                    IF c.defender_card = Some("Patchface") /\ s4.houses[attacker].hand # <<>>
                    THEN Pend(s4, [type |-> "PatchfaceDiscard", opponent |-> attacker,
                                   visible_cards |-> s4.houses[attacker].hand])
                    ELSE IF c.attacker_card = Some("DoranMartell")
                    THEN Pend(s4, [type |-> "DoranChooseTrack", opponent |-> defender])
                    ELSE finalize_combat(s4)
            IN  IF c.defender_card = Some("CerseiLannister")
                THEN Pend(s3, [type |-> "CerseiRemoveOrder", opponent |-> attacker])
                ELSE Routed([s3 EXCEPT !.areas[from].units =
                               @ \o [i \in 1..Len(remaining_attackers) |->
                                        [remaining_attackers[i] EXCEPT !.routed = TRUE]]])
        DefenderWon(s0, killed) ==
            LET Tywin(s2) ==
                    AfterDefence(IF c.defender_card = Some("TywinLannister")
                                 THEN TywinSteals(s2, defender, attacker) ELSE s2,
                                 SubSeq(c.attacking_units, killed + 1, Len(c.attacking_units)))
                Roose(s1) == Tywin(IF c.attacker_card = Some("RooseBolton")
                                   THEN RooseReturns(s1, attacker) ELSE s1)
            IN  Roose(ReturnToPool(s0, attacker, SubSeq(c.attacking_units, 1, killed)))
        Casualties(winner_card, loser_card) ==
            SaturatingSub(CardPlayed(winner_card).swords, CardPlayed(loser_card).fortifications)
        Decide(s0, attacker_wins) ==
            IF attacker_wins
            THEN AttackerWon(s0, Min(Casualties(c.attacker_card, c.defender_card),
                                     Len(c.defending_units)))
            ELSE DefenderWon(s0, Min(Casualties(c.defender_card, c.attacker_card),
                                     Len(c.attacking_units)))
        Strengths(totals) ==
            Decide(SetCombat(SetCombat(s, "attacker_strength", totals[1]),
                             "defender_strength", totals[2]),
                   AttackerWins(s, totals))
    IN  Strengths(CombatTotals(s))

(***************************************************************************)
(* engine.rs: advance                                                       *)
(***************************************************************************)
(* advance without its guard (lines 91-93 left out) *)
advance_unguarded(s) ==
    CASE s.phase = "Westeros" -> advance_westeros(s)
      [] s.phase = "Planning" -> advance_planning(s)
      [] s.phase = "Action" -> advance_action_phase(s)
      [] s.phase = "Combat" -> advance_combat(s)

advance(s) ==
    IF IsSome(s.pending) \/ IsSome(s.winner) THEN s
    ELSE CASE s.phase = "Westeros" -> advance_westeros(s)
           [] s.phase = "Planning" -> advance_planning(s)
           [] s.phase = "Action" -> advance_action_phase(s)
           [] s.phase = "Combat" -> advance_combat(s)

(***************************************************************************)
(* engine.rs: apply_action                                                  *)
(* An Action is a record with a `type` (the variant) and its payload.       *)
(* Indices carried by actions are 0-based as in the source.                 *)
(***************************************************************************)
RECURSIVE PlaceOrderList(_, _, _)
PlaceOrderList(s, house, orders) ==
    IF orders = <<>> THEN s
    ELSE PlaceOrderList([s EXCEPT !.areas[Head(orders)[1]].order =
                                      Some(Order(Head(orders)[2], house))],
                        house, Tail(orders))

ApplyPlaceOrders(s, p, a) ==
    [PlaceOrderList(s, p.house, a.orders) EXCEPT !.houses[p.house].used_order_tokens = <<>>]

ApplyMessengerRaven(s, p, a) ==
    IF IsSome(a.swap)
    THEN [s EXCEPT !.areas[Unwrap(a.swap)[1]].order = Some(Order(Unwrap(a.swap)[2], p.house))]
    ELSE s

ApplyWesterosChoice(s, p, a) ==
    LET choice == IF a.idx < Len(p.options) THEN p.options[a.idx + 1] ELSE ""
    IN  CASE p.card_name = "A Throne of Blades" ->
               IF choice = "Mustering" THEN [s EXCEPT !.muster_house_idx = 1]
               ELSE resolve_supply_update(s)
          [] p.card_name = "Dark Wings, Dark Words" ->
               IF choice = "Clash of Kings" THEN begin_clash_of_kings(s)
               ELSE resolve_game_of_thrones(s)
          [] p.card_name = "Put to the Sword" ->
               [s EXCEPT !.star_order_restrictions =
                   Append(@, CASE a.idx = 0 -> "March" [] a.idx = 1 -> "Defense"
                               [] a.idx = 2 -> "Support" [] a.idx = 3 -> "Raid"
                               [] a.idx = 4 -> "ConsolidatePower" [] OTHER -> "March")]
          [] OTHER -> s

ApplyBid_unclamped(s, p, a) ==
    IF IsSome(s.bidding)
    THEN [s EXCEPT !.bidding =
             Some([Unwrap(s.bidding) EXCEPT
                      !.bids = [h \in (DOMAIN @) \cup {p.house} |->
                                   IF h = p.house THEN a.amount ELSE @[h]],
                      !.next_bidder_idx = @ + 1])]
    ELSE s

ApplyBid(s, p, a) ==
    LET clamped == Min(a.amount, s.houses[p.house].power)
    IN  IF IsSome(s.bidding)
        THEN [s EXCEPT !.bidding =
                 Some([Unwrap(s.bidding) EXCEPT
                          !.bids = [h \in (DOMAIN @) \cup {p.house} |->
                                       IF h = p.house THEN clamped ELSE @[h]],
                          !.next_bidder_idx = @ + 1])]
        ELSE s

MusterOne(s, house, area_id, act) ==
    IF act.kind = "Build"
    THEN IF s.houses[house].available_units[PoolField(act.unit_type)] > 0
         THEN [s EXCEPT !.houses[house].available_units[PoolField(act.unit_type)] = @ - 1,
                        !.areas[area_id].units = Append(@, Unit(act.unit_type, house))]
         ELSE s
    ELSE LET units == s.areas[area_id].units
             foot == SelectIdx(units, LAMBDA i : units[i].house = house
                                                  /\ units[i].unit_type = "Footman")
         IN  IF foot # <<>> /\ s.houses[house].available_units.knights > 0
             THEN [s EXCEPT !.areas[area_id].units[foot[1]].unit_type = "Knight",
                            !.houses[house].available_units.knights = @ - 1,
                            !.houses[house].available_units.footmen = @ + 1]
             ELSE s

RECURSIVE MusterList(_, _, _)
MusterList(s, house, actions) ==
    IF actions = <<>> THEN s
    ELSE MusterList(MusterOne(s, house, Head(actions)[1], Head(actions)[2]), house, Tail(actions))

ApplyMuster(s, p, a) ==
    LET s1 == MusterList(s, p.house, a.actions)
    IN  IF s1.muster_house_idx > 0 THEN [s1 EXCEPT !.muster_house_idx = @ + 1] ELSE s1

NextActionPlayer(s) ==
    [s EXCEPT !.action_player_index = (@ + 1) % Len(s.playing_houses)]

ApplyRaid(s, p, a) ==
    LET s1 == IF IsSome(a.target)
              THEN LET t == Unwrap(a.target)
                       steals == /\ OrderIs(s.areas[t], "ConsolidatePower")
                                 /\ IsSome(s.areas[t].house)
                                 /\ s.houses[Unwrap(s.areas[t].house)].power > 0
                       raider == IF IsSome(s.areas[p.from_area].house)
                                 THEN Unwrap(s.areas[p.from_area].house) ELSE "Stark"
                       sa == IF steals
                             THEN [s EXCEPT !.houses[Unwrap(s.areas[t].house)].power = @ - 1]
                             ELSE s
                       sb == IF steals THEN [sa EXCEPT !.houses[raider].power = @ + 1] ELSE sa
                   IN  [sb EXCEPT !.areas[t].order = None]
              ELSE s
    IN  NextActionPlayer([s1 EXCEPT !.areas[p.from_area].order = None])

ApplyMarch(s, p, a) ==
    LET house == p.house
        from_area == p.from_area
        src == s.areas[from_area].units
        valid == SelectSeq(a.unit_indices, LAMBDA i : i < Len(src))
        moving_units == [k \in 1..Len(valid) |-> src[valid[k] + 1]]
        kept == SelectIdx(src, LAMBDA i : ~Contains(a.unit_indices, i - 1))
        s1 == [s EXCEPT !.areas[from_area].units = [k \in 1..Len(kept) |-> src[kept[k]]]]
        target_house == s1.areas[a.to].house
        has_enemy_units == /\ s1.areas[a.to].units # <<>>
                           /\ IsSome(target_house) /\ target_house # Some(house)
        has_garrison == a.to \in DOMAIN s1.garrisons /\ s1.garrisons[a.to].house # Some(house)
    IN  IF has_enemy_units
           \/ (IsSome(target_house) /\ target_house # Some(house) /\ has_garrison)
        THEN begin_combat(s1, house, Unwrap(target_house), a.to, moving_units, from_area)
        ELSE LET s2 == [s1 EXCEPT !.areas[a.to].units = @ \o moving_units]
                 s3 == IF IsNone(s2.areas[a.to].house) \/ s2.areas[a.to].house = Some(house)
                       THEN [s2 EXCEPT !.areas[a.to].house = Some(house)] ELSE s2
             IN  IF s3.areas[from_area].units = <<>> /\ is_land(from_area)
                 THEN [s3 EXCEPT !.pending = Some([type |-> "LeavePowerToken", house |-> house,
                                                   area_id |-> from_area])]
                 ELSE LET s4 == IF s3.areas[from_area].units = <<>>
                                THEN [s3 EXCEPT !.areas[from_area].house = None] ELSE s3
                      IN  check_victory(NextActionPlayer(
                              [s4 EXCEPT !.areas[from_area].order = None]))

ApplyMarchSkip(s, p, a) ==
    NextActionPlayer([s EXCEPT !.areas[p.from_area].order = None])

ApplyLeavePowerToken(s, p, a) ==
    LET s1 == IF a.leave /\ s.houses[p.house].power > 0
              THEN [s EXCEPT !.houses[p.house].power = @ - 1]
              ELSE [s EXCEPT !.areas[p.area_id].house = None]
    IN  NextActionPlayer([s1 EXCEPT !.areas[p.area_id].order = None])

(* hand.remove(position of card), discards.push(card) *)
PlayCard(s, house, card) ==
    LET pos == Position(s.houses[house].hand, card)
    IN  [s EXCEPT !.houses[house].hand = IF pos > 0 THEN RemoveAt(@, pos) ELSE @,
                  !.houses[house].discards = Append(@, card)]

SetCombatCard(s, house, card) ==
    IF IsSome(s.combat)
    THEN IF house = Unwrap(s.combat).attacker THEN SetCombat(s, "attacker_card", Some(card))
         ELSE SetCombat(s, "defender_card", Some(card))
    ELSE s

ApplySelectCard(s, p, a) == PlayCard(SetCombatCard(s, p.house, a.card_id), p.house, a.card_id)

(* the declaration is recorded and its area stays among those to be asked *)
ApplyDeclareSupport_asked_again(s, p, a) ==
    IF IsSome(s.combat)
    THEN LET c == Unwrap(s.combat)
         IN  [s EXCEPT !.combat = Some([c EXCEPT
                 !.support_decisions = [x \in (DOMAIN @) \cup {p.area_id} |->
                                          IF x = p.area_id THEN a.choice ELSE @[x]]])]
    ELSE s

ApplyDeclareSupport(s, p, a) ==
    IF IsSome(s.combat)
    THEN LET c == Unwrap(s.combat)
         IN  [s EXCEPT !.combat = Some([c EXCEPT
                 !.support_decisions = [x \in (DOMAIN @) \cup {p.area_id} |->
                                          IF x = p.area_id THEN a.choice ELSE @[x]],
                 !.pending_support_houses = SelectSeq(@, LAMBDA e : e[1] # p.area_id)])]
    ELSE s

(* the bonus is given without marking the blade used *)
ApplyUseValyrianBlade_unmarked(s, p, a) ==
    IF a.use_it /\ IsSome(s.combat)
    THEN IF p.house = Unwrap(s.combat).attacker
         THEN SetCombat(s, "attacker_used_blade", TRUE)
         ELSE SetCombat(s, "defender_used_blade", TRUE)
    ELSE s

ApplyUseValyrianBlade(s, p, a) ==
    IF a.use_it
    THEN LET s1 == [s EXCEPT !.valyrian_steel_blade_used = TRUE]
         IN  IF IsSome(s1.combat)
             THEN IF p.house = Unwrap(s1.combat).attacker
                  THEN SetCombat(s1, "attacker_used_blade", TRUE)
                  ELSE SetCombat(s1, "defender_used_blade", TRUE)
             ELSE s1
    ELSE s

(* move every unit of `house` from one area to another, routed *)
RetreatUnits(s, house, from_area, to) ==
    LET units == SelectSeq(s.areas[from_area].units, LAMBDA u : u.house = house)
        s1 == [s EXCEPT !.areas[from_area].units = SelectSeq(@, LAMBDA u : u.house # house)]
        s2 == [s1 EXCEPT !.areas[to].units =
                  @ \o [i \in 1..Len(units) |-> [units[i] EXCEPT !.routed = TRUE]]]
    IN  IF IsNone(s2.areas[to].house) THEN [s2 EXCEPT !.areas[to].house = Some(house)] ELSE s2

ApplyRetreat(s, p, a) == finalize_combat(RetreatUnits(s, p.house, p.from_area, a.to))

ApplyTyrionReplace(s, p, a) ==
    PlayCard(SetCombatCard(s, p.opponent, a.new_card), p.opponent, a.new_card)

ApplyAeronSwap(s, p, a) ==
    IF IsSome(a.new_card)
    THEN LET new_id == Unwrap(a.new_card)
             s1 == [s EXCEPT !.houses[p.house].power = SaturatingSub(@, 2)]
             old_card == IF IsSome(s1.combat)
                         THEN IF p.house = Unwrap(s1.combat).attacker
                              THEN Unwrap(s1.combat).attacker_card
                              ELSE Unwrap(s1.combat).defender_card
                         ELSE None
             s2 == IF IsSome(old_card)
                   THEN LET pos == Position(s1.houses[p.house].discards, Unwrap(old_card))
                        IN  [s1 EXCEPT !.houses[p.house].discards =
                                           IF pos > 0 THEN RemoveAt(@, pos) ELSE @,
                                       !.houses[p.house].hand = Append(@, Unwrap(old_card))]
                   ELSE s1
         IN  PlayCard(SetCombatCard(s2, p.house, new_id), p.house, new_id)
    ELSE s

ApplyRobbRetreat(s, p, a) ==
    finalize_combat(IF IsSome(s.combat)
                    THEN RetreatUnits(s, Unwrap(s.combat).defender, Unwrap(s.combat).area_id, a.to)
                    ELSE s)

ApplyCerseiRemoveOrder(s, p, a) == finalize_combat([s EXCEPT !.areas[a.area_id].order = None])

ApplyPatchfaceDiscard(s, p, a) == finalize_combat(PlayCard(s, p.opponent, a.card_id))

(* the demotion without the update of the turn order *)
ApplyDoranChooseTrack_stale_order(s, p, a) ==
    LET pc == Len(s.playing_houses)
        old_pos == TrackPos(s, p.opponent, a.track)
        Moved(h) == IF h = p.opponent THEN pc
                    ELSE IF TrackPos(s, h, a.track) > old_pos THEN TrackPos(s, h, a.track) - 1
                    ELSE TrackPos(s, h, a.track)
        s1 == [s EXCEPT !.houses = [h \in DOMAIN s.houses |->
                                      IF Contains(s.playing_houses, h)
                                      THEN SetTrackPos(s.houses[h], a.track, Moved(h))
                                      ELSE s.houses[h]]]
    IN  finalize_combat(s1)

ApplyDoranChooseTrack(s, p, a) ==
    LET pc == Len(s.playing_houses)
        old_pos == TrackPos(s, p.opponent, a.track)
        Moved(h) == IF h = p.opponent THEN pc
                    ELSE IF TrackPos(s, h, a.track) > old_pos THEN TrackPos(s, h, a.track) - 1
                    ELSE TrackPos(s, h, a.track)
        s1 == [s EXCEPT !.houses = [h \in DOMAIN s.houses |->
                                      IF Contains(s.playing_houses, h)
                                      THEN SetTrackPos(s.houses[h], a.track, Moved(h))
                                      ELSE s.houses[h]]]
        s2 == IF a.track = "IronThrone"
              THEN [s1 EXCEPT !.turn_order =
                       SortByKey(s1.playing_houses, LAMBDA h : s1.houses[h].iron_throne)]
              ELSE s1
    IN  finalize_combat(s2)

ApplyQueenOfThorns(s, p, a) == [s EXCEPT !.areas[a.area_id].order = None]

(* the Reconcile arm without the check that follows the removal *)
ApplyReconcile_once(s, p, a) ==
    LET units == s.areas[a.area_id].units
    IN  IF a.unit_idx < Len(units)
        THEN [s EXCEPT !.areas[a.area_id].units = RemoveAt(@, a.unit_idx + 1),
                       !.houses[p.house].available_units[
                            PoolField(units[a.unit_idx + 1].unit_type)] = @ + 1]
        ELSE s

ApplyReconcile(s, p, a) ==
    LET units == s.areas[a.area_id].units
        s1 == IF a.unit_idx < Len(units)
              THEN [s EXCEPT !.areas[a.area_id].units = RemoveAt(@, a.unit_idx + 1),
                             !.houses[p.house].available_units[
                                  PoolField(units[a.unit_idx + 1].unit_type)] = @ + 1]
              ELSE s
        bad == SelectSeq(s1.playing_houses,
                         LAMBDA h : check_supply_violation(s1, h) /\ find_violations(s1, h) # <<>>)
    IN  IF bad = <<>> THEN s1
        ELSE LET v == find_violations(s1, bad[1])[1]
             IN  [s1 EXCEPT !.pending =
                    Some([type |-> "Reconcile", house |-> bad[1], area_id |-> v[1],
                          current_size |-> v[2], max_allowed |-> v[3]])]

(* the variant of Action each PendingDecision variant is matched with *)
Matches(p, a) ==
    \/ p.type = "PlaceOrders" /\ a.type = "PlaceOrders"
    \/ p.type = "MessengerRaven" /\ a.type = "MessengerRaven"
    \/ p.type = "WesterosChoice" /\ a.type = "WesterosChoice"
    \/ p.type = "Bidding" /\ a.type = "Bid"
    \/ p.type = "Muster" /\ a.type = "Muster"
    \/ p.type = "ChooseRaid" /\ a.type = "Raid"
    \/ p.type = "ChooseMarch" /\ a.type \in {"March", "MarchSkip"}
    \/ p.type = "LeavePowerToken" /\ a.type = "LeavePowerToken"
    \/ p.type = "SelectHouseCard" /\ a.type = "SelectCard"
    \/ p.type = "SupportDeclaration" /\ a.type = "DeclareSupport"
    \/ p.type = "UseValyrianBlade" /\ a.type = "UseValyrianBlade"
    \/ p.type = "Retreat" /\ a.type = "Retreat"
    \/ p.type = "TyrionReplace" /\ a.type = "TyrionReplace"
    \/ p.type = "AeronSwap" /\ a.type = "AeronSwap"
    \/ p.type = "RobbRetreat" /\ a.type = "RobbRetreat"
    \/ p.type = "CerseiRemoveOrder" /\ a.type = "CerseiRemoveOrder"
    \/ p.type = "PatchfaceDiscard" /\ a.type = "PatchfaceDiscard"
    \/ p.type = "DoranChooseTrack" /\ a.type = "DoranChooseTrack"
    \/ p.type = "QueenOfThornsRemoveOrder" /\ a.type = "QueenOfThorns"
    \/ p.type = "Reconcile" /\ a.type = "Reconcile"
    \/ p.type = "WildlingPenaltyChoice" /\ a.type = "WildlingPenalty"

(* the match of apply_action: s is the state after pending.take() *)
ApplyArm(s, p, a) ==
    IF ~Matches(p, a) THEN s
    ELSE CASE a.type = "PlaceOrders" -> ApplyPlaceOrders(s, p, a)
           [] a.type = "MessengerRaven" -> ApplyMessengerRaven(s, p, a)
           [] a.type = "WesterosChoice" -> ApplyWesterosChoice(s, p, a)
           [] a.type = "Bid" -> ApplyBid(s, p, a)
           [] a.type = "Muster" -> ApplyMuster(s, p, a)
           [] a.type = "Raid" -> ApplyRaid(s, p, a)
           [] a.type = "March" -> ApplyMarch(s, p, a)
           [] a.type = "MarchSkip" -> ApplyMarchSkip(s, p, a)
           [] a.type = "LeavePowerToken" -> ApplyLeavePowerToken(s, p, a)
           [] a.type = "SelectCard" -> ApplySelectCard(s, p, a)
           [] a.type = "DeclareSupport" -> ApplyDeclareSupport(s, p, a)
           [] a.type = "UseValyrianBlade" -> ApplyUseValyrianBlade(s, p, a)
           [] a.type = "Retreat" -> ApplyRetreat(s, p, a)
           [] a.type = "TyrionReplace" -> ApplyTyrionReplace(s, p, a)
           [] a.type = "AeronSwap" -> ApplyAeronSwap(s, p, a)
           [] a.type = "RobbRetreat" -> ApplyRobbRetreat(s, p, a)
           [] a.type = "CerseiRemoveOrder" -> ApplyCerseiRemoveOrder(s, p, a)
           [] a.type = "PatchfaceDiscard" -> ApplyPatchfaceDiscard(s, p, a)
           [] a.type = "DoranChooseTrack" -> ApplyDoranChooseTrack(s, p, a)
           [] a.type = "QueenOfThorns" -> ApplyQueenOfThorns(s, p, a)
           [] a.type = "Reconcile" -> ApplyReconcile(s, p, a)
           [] a.type = "WildlingPenalty" -> s

(* apply_action that drops every action *)
apply_action_ignored(s, action) == s

apply_action(s, action) ==
    IF IsNone(s.pending) THEN s
    ELSE LET s1 == ApplyArm([s EXCEPT !.pending = None], Unwrap(s.pending), action)
         IN  IF IsNone(s1.pending) THEN advance(s1) ELSE s1

(***************************************************************************)
(* visibility.rs                                                            *)
(***************************************************************************)
(* orders shown in every phase *)
orders_always_revealed(s) == TRUE

orders_are_revealed(s) == s.phase \in {"Action", "Combat"} \/ s.phase = "Westeros"

pending_involves(p, house) ==
    CASE p.type = "WesterosChoice" -> p.chooser = house
      [] p.type \in {"TyrionReplace"} -> p.opponent = house
      [] p.type \in {"PatchfaceDiscard", "RobbRetreat", "Bidding", "LeavePowerToken",
                     "UseValyrianBlade", "CerseiRemoveOrder", "DoranChooseTrack",
                     "QueenOfThornsRemoveOrder"} -> TRUE
      [] p.type \in {"SupportDeclaration", "AeronSwap", "Retreat", "Reconcile", "Muster",
                     "PlaceOrders", "ChooseRaid", "ChooseMarch", "SelectHouseCard",
                     "MessengerRaven", "WildlingPenaltyChoice"} -> p.house = house

(* the raw GameState handed over in place of a view *)
player_view_raw(s, viewer) == [viewer |-> viewer, state |-> s]

player_view(s, viewer) ==
    LET revealed == orders_are_revealed(s)
        AreaView(a) ==
            LET area_state == s.areas[a]
                is_mine == area_state.house = Some(viewer)
            IN  [id |-> a, units |-> area_state.units, house |-> area_state.house,
                 order |-> IF revealed \/ is_mine THEN area_state.order ELSE None,
                 has_hidden_order |-> IF revealed \/ is_mine THEN FALSE
                                      ELSE IsSome(area_state.order),
                 blocked |-> area_state.blocked]
        mine == {a \in AreaIds : ~revealed /\ s.areas[a].house = Some(viewer)
                                 /\ IsSome(s.areas[a].order)}
    IN  [viewer |-> viewer, round |-> s.round, phase |-> s.phase,
         action_sub_phase |-> s.action_sub_phase, wildling_threat |-> s.wildling_threat,
         turn_order |-> s.turn_order, playing_houses |-> s.playing_houses,
         house_info |-> [h \in DOMAIN s.houses |->
                            [name |-> h, iron_throne |-> s.houses[h].iron_throne,
                             fiefdoms |-> s.houses[h].fiefdoms,
                             kings_court |-> s.houses[h].kings_court,
                             supply |-> s.houses[h].supply, power |-> s.houses[h].power,
                             cards_in_hand |-> Len(s.houses[h].hand),
                             discards |-> s.houses[h].discards,
                             available_units |-> s.houses[h].available_units]],
         areas |-> [a \in AreaIds |-> AreaView(a)],
         garrisons |-> s.garrisons, combat |-> s.combat,
         pending |-> IF IsSome(s.pending) /\ pending_involves(Unwrap(s.pending), viewer)
                     THEN s.pending ELSE None,
         valyrian_steel_blade_used |-> s.valyrian_steel_blade_used,
         messenger_raven_used |-> s.messenger_raven_used,
         order_restrictions |-> s.order_restrictions,
         star_order_restrictions |-> s.star_order_restrictions,
         winner |-> s.winner,
         my_hand |-> s.houses[viewer].hand,
         my_orders |-> [a \in mine |-> Unwrap(s.areas[a].order)]]

possible_hand(s, house) ==
    SelectSeq(all_house_card_ids(house), LAMBDA c : ~Contains(s.houses[house].discards, c))

(***************************************************************************)
(* The driver: runner.rs run_game and tests.rs play_full_game_random.       *)
(* It calls advance, then answers the pending decision with apply_action.   *)
(***************************************************************************)
MaxAnswers == 14

PlayerCounts == {3}

Seeds == {5, 7}

LivePlayerCounts == 3..6

LiveSeeds == {7, 75, 238}

(* token sequences a house may lay on its unit-occupied areas, in area order *)
ORDER_PLANS ==
    << <<14, 0, 9, 3, 6, 12, 4, 7, 10, 13>>,
       <<1, 3, 6, 12, 9, 4, 7, 10, 13, 5>> >>

MARCH_MENU == {BLACKWATER, STONEY_SEPT, WHITE_HARBOR}

CARD_MENU == {"CerseiLannister", "TywinLannister", "Patchface", "StannisBaratheon", "EddardStark"}

BID_MENU == <<0, 1>>

unit_areas(s, house) ==
    AreasWhere(LAMBDA a : s.areas[a].house = Some(house) /\ s.areas[a].units # <<>>)

(* the first elements of seq that are in the menu, or its first element *)
Preferred(seq, menu) ==
    LET pick == SelectSeq(seq, LAMBDA x : x \in menu)
    IN  IF pick # <<>> THEN pick ELSE SubSeq(seq, 1, 1)

(* the answers random_action may give to the pending decision p, in a fixed *)
(* order; the generator picks one of them                                   *)
random_action(s, p) ==
    CASE p.type = "PlaceOrders" ->
            [i \in 1..Len(ORDER_PLANS) |->
                [type |-> "PlaceOrders",
                 orders |-> [k \in 1..Len(unit_areas(s, p.house)) |->
                                <<unit_areas(s, p.house)[k], ORDER_PLANS[i][k]>>]]]
      [] p.type = "MessengerRaven" -> << [type |-> "MessengerRaven", swap |-> None] >>
      [] p.type = "WesterosChoice" ->
            [i \in 1..Len(p.options) |-> [type |-> "WesterosChoice", idx |-> i - 1]]
      [] p.type = "Bidding" ->
            LET amounts == SelectSeq(BID_MENU, LAMBDA n : n <= s.houses[p.house].power)
            IN  [i \in 1..Len(amounts) |-> [type |-> "Bid", amount |-> amounts[i]]]
      [] p.type = "Muster" ->
            LET areas == SelectSeq(p.areas, LAMBDA m : m.points >= 1)
            IN  << [type |-> "Muster",
                    actions |-> [k \in 1..Len(areas) |->
                                   <<areas[k].area_id,
                                     [kind |-> "Build", unit_type |-> "Footman"]>>]] >>
      [] p.type = "ChooseRaid" ->
            << [type |-> "Raid", target |-> None] >>
            \o [i \in 1..Min(1, Len(p.valid_targets)) |->
                   [type |-> "Raid", target |-> Some(p.valid_targets[i])]]
      [] p.type = "ChooseMarch" ->
            IF p.valid_destinations = <<>> THEN << [type |-> "MarchSkip"] >>
            ELSE LET dests == Preferred(p.valid_destinations, MARCH_MENU)
                 IN  [i \in 1..Len(dests) |->
                        [type |-> "March", to |-> dests[i],
                         unit_indices |->
                            [k \in 1..Len(s.areas[p.from_area].units) |-> k - 1]]]
      [] p.type = "LeavePowerToken" ->
            << [type |-> "LeavePowerToken", leave |-> FALSE],
               [type |-> "LeavePowerToken", leave |-> TRUE] >>
      [] p.type = "SupportDeclaration" ->
            << [type |-> "DeclareSupport", choice |-> "Attacker"],
               [type |-> "DeclareSupport", choice |-> "Defender"],
               [type |-> "DeclareSupport", choice |-> "None"] >>
      [] p.type = "SelectHouseCard" ->
            LET cards == Preferred(p.available_cards, CARD_MENU)
            IN  [i \in 1..Len(cards) |-> [type |-> "SelectCard", card_id |-> cards[i]]]
      [] p.type = "UseValyrianBlade" ->
            << [type |-> "UseValyrianBlade", use_it |-> FALSE],
               [type |-> "UseValyrianBlade", use_it |-> TRUE] >>
      [] p.type = "Retreat" -> << [type |-> "Retreat", to |-> p.possible_areas[1]] >>
      [] p.type = "Reconcile" ->
            << [type |-> "Reconcile", area_id |-> p.area_id, unit_idx |-> 0] >>
      [] p.type = "AeronSwap" -> << [type |-> "AeronSwap", new_card |-> None] >>
      [] p.type = "TyrionReplace" ->
            << [type |-> "TyrionReplace", new_card |-> s.houses[p.opponent].hand[1]] >>
      [] p.type = "PatchfaceDiscard" ->
            << [type |-> "PatchfaceDiscard", card_id |-> p.visible_cards[1]] >>
      [] p.type = "RobbRetreat" -> << [type |-> "RobbRetreat", to |-> p.possible_areas[1]] >>
      [] p.type = "CerseiRemoveOrder" ->
            LET with == AreasWhere(LAMBDA a : IsSome(s.areas[a].order))
            IN  << [type |-> "CerseiRemoveOrder",
                    area_id |-> IF with = <<>> THEN 0 ELSE with[1]] >>
      [] p.type = "DoranChooseTrack" ->
            << [type |-> "DoranChooseTrack", track |-> "IronThrone"] >>
      [] OTHER -> <<>>

(* one run of play_full_game_random: the generator's draw is a function of  *)
(* the seed and of the point of the game                                    *)
drawn_action(s, p) ==
    LET answers == random_action(s, p)
    IN  answers[((s.seed + s.round + s.action_player_index) % Len(answers)) + 1]

(* actions of a variant the pending decision p is not matched with *)
mismatched_actions(p) ==
    { a \in { [type |-> "Bid", amount |-> 0], [type |-> "MarchSkip"] } : ~Matches(p, a) }

VARIABLES state, call

vars == <<state, call>>

(* the last call of the driver: the operation, the decision that was pending
   when it was made, the action given, and the number of answers so far *)
Call(op, answered, action, answers) ==
    [op |-> op, answered |-> answered, action |-> action, answers |-> answers]

(* the last call gave apply_action an action of the wrong variant *)
Misused ==
    /\ call.op = "apply_action"
    /\ ~Matches(Unwrap(call.answered), Unwrap(call.action))

Init ==
    \E pc \in PlayerCounts : \E seed \in Seeds :
        /\ state = create_initial_state(pc, seed)
        /\ call = Call("create_initial_state", None, None, 0)

(* run_game: advance(&mut state) at the top of the loop *)
Advance ==
    /\ call.op # "advance"
    /\ ~Misused
    /\ call.answers < MaxAnswers
    /\ state' = advance(state)
    /\ call' = Call("advance", state.pending, None, call.answers)

(* run_game: the agent's answer to the pending decision is applied *)
ApplyAction ==
    /\ call.op = "advance"
    /\ IsNone(state.winner)
    /\ IsSome(state.pending)
    /\ \E a \in Range(random_action(state, Unwrap(state.pending))) :
          /\ state' = apply_action(state, a)
          /\ call' = Call("apply_action", state.pending, Some(a), call.answers + 1)

Next == Advance \/ ApplyAction

Spec == Init /\ [][Next]_vars

(* a caller that answers with an action of the wrong variant *)
ApplyMismatched ==
    /\ call.op = "advance"
    /\ IsNone(state.winner)
    /\ IsSome(state.pending)
    /\ \E a \in mismatched_actions(Unwrap(state.pending)) :
          /\ state' = apply_action(state, a)
          /\ call' = Call("apply_action", state.pending, Some(a), call.answers + 1)

NextMisuse == Advance \/ ApplyAction \/ ApplyMismatched

SpecMisuse == Init /\ [][NextMisuse]_vars

(* play_full_game_random to the end of the game *)
InitLive ==
    \E pc \in LivePlayerCounts : \E seed \in LiveSeeds :
        /\ state = create_initial_state(pc, seed)
        /\ call = Call("create_initial_state", None, None, 0)

AdvanceCall == Call("advance", state.pending, None, call.answers)

DrawnCall ==
    Call("apply_action", state.pending,
         Some(drawn_action(state, Unwrap(state.pending))), call.answers)

AdvanceLive ==
    /\ call.op # "advance"
    /\ state' = advance(state)
    /\ call' = AdvanceCall

ApplyDrawn ==
    /\ call.op = "advance"
    /\ IsNone(state.winner)
    /\ IsSome(state.pending)
    /\ state' = apply_action(state, Unwrap(DrawnCall.action))
    /\ call' = DrawnCall

NextLive == AdvanceLive \/ ApplyDrawn

(* The driver's loop keeps making its next call: the call it is about to   *)
(* make is determined by the current state, and it is made eventually.     *)
DriverCalls ==
    \/ call.op # "advance" /\ call' = AdvanceCall
    \/ call.op = "advance" /\ IsNone(state.winner) /\ IsSome(state.pending)
           /\ call' = DrawnCall

SpecLive == InitLive /\ [][NextLive]_vars /\ WF_call(DriverCalls)

(***************************************************************************)
(* A scripted game: one house marches on the castles along a route and     *)
(* holds what it leaves with power tokens, the other houses hold their     *)
(* ground.                                                                 *)
(***************************************************************************)
CampaignSeeds == {5, 7, 75}

(* the castles and strongholds the marching house heads for, nearest first *)
CAMPAIGN_ROUTE ==
    <<KINGS_LANDING, CRACKCLAW_POINT, HARRENHAL, THE_REACH, RIVERRUN, SEAGARD, STORMS_END,
      THE_EYRIE, MOAT_CAILIN, FLINTS_FINGER>>

(* token indices into ORDER_TOKENS: Baratheon lays its three March tokens  *)
(* on its land areas; everything else gets Defense, ConsolidatePower or    *)
(* Support tokens                                                          *)
campaign_orders(s, house) ==
    LET march_tokens == <<1, 0, 2>>
        hold_tokens == <<3, 4, 12, 13, 6, 7, 5, 14>>
        areas == unit_areas(s, house)
        Rank(k) == Cardinality({j \in 1..k : is_land(areas[j])})
        Token(k) ==
            IF house = "Baratheon" /\ is_land(areas[k]) /\ Rank(k) <= Len(march_tokens)
            THEN march_tokens[Rank(k)]
            ELSE hold_tokens[((k - 1) % Len(hold_tokens)) + 1]
    IN  [type |-> "PlaceOrders", orders |-> [k \in 1..Len(areas) |-> <<areas[k], Token(k)>>]]

campaign_march(s, p) ==
    LET targets == SelectSeq(CAMPAIGN_ROUTE,
                             LAMBDA t : /\ Contains(p.valid_destinations, t)
                                        /\ IsNone(s.areas[t].house)
                                        /\ s.areas[t].units = <<>>)
    IN  IF targets = <<>> THEN [type |-> "MarchSkip"]
        ELSE [type |-> "March", to |-> targets[1],
              unit_indices |-> [k \in 1..Len(s.areas[p.from_area].units) |-> k - 1]]

(* the answer of the scripted agents to the pending decision p *)
campaign_action(s, p) ==
    CASE p.type = "PlaceOrders" -> campaign_orders(s, p.house)
      [] p.type = "ChooseMarch" -> campaign_march(s, p)
      [] p.type = "LeavePowerToken" ->
            [type |-> "LeavePowerToken", leave |-> has_castle_or_stronghold(p.area_id)]
      [] OTHER -> random_action(s, p)[1]

InitCampaign ==
    \E seed \in CampaignSeeds :
        /\ state = create_initial_state(3, seed)
        /\ call = Call("create_initial_state", None, None, 0)

CampaignCall ==
    Call("apply_action", state.pending,
         Some(campaign_action(state, Unwrap(state.pending))), call.answers)

ApplyCampaign ==
    /\ call.op = "advance"
    /\ IsNone(state.winner)
    /\ IsSome(state.pending)
    /\ state' = apply_action(state, Unwrap(CampaignCall.action))
    /\ call' = CampaignCall

NextCampaign == AdvanceLive \/ ApplyCampaign

SpecCampaign == InitCampaign /\ [][NextCampaign]_vars

(***************************************************************************)
(* A game of play_full_game_random in which Lannister keeps Tyrion         *)
(* Lannister for an opponent whose hand is spent, and plays its other      *)
(* cards first.                                                            *)
(***************************************************************************)
TyrionSeeds == {106}

tyrion_last_action(s, p) ==
    LET Opponent(c) == IF c.attacker = p.house THEN c.defender ELSE c.attacker
        Choose(rest, opp) ==
            IF rest = <<>> \/ (s.houses[opp].hand = <<>> /\ opp # "Stark")
            THEN [type |-> "SelectCard", card_id |-> "TyrionLannister"]
            ELSE [type |-> "SelectCard", card_id |-> rest[1]]
    IN  IF p.type = "SelectHouseCard" /\ Contains(p.available_cards, "TyrionLannister")
        THEN Choose(SelectSeq(p.available_cards, LAMBDA c : c # "TyrionLannister"),
                    Opponent(Unwrap(s.combat)))
        ELSE drawn_action(s, p)

InitTyrion ==
    \E pc \in LivePlayerCounts : \E seed \in TyrionSeeds :
        /\ state = create_initial_state(pc, seed)
        /\ call = Call("create_initial_state", None, None, 0)

ApplyTyrion ==
    /\ call.op = "advance"
    /\ IsNone(state.winner)
    /\ IsSome(state.pending)
    /\ state' = apply_action(state, tyrion_last_action(state, Unwrap(state.pending)))
    /\ call' = Call("apply_action", state.pending,
                    Some(tyrion_last_action(state, Unwrap(state.pending))), call.answers)

NextTyrion == AdvanceLive \/ ApplyTyrion

SpecTyrion == InitTyrion /\ [][NextTyrion]_vars

(***************************************************************************)
(* Games in which every house marches on King's Landing when it can        *)
(***************************************************************************)
GarrisonSeeds == {75}

(* an agent that marches every unit of the area to King's Landing when the  *)
(* engine offers it as a destination, and plays the drawn action otherwise  *)
kings_landing_action(s, p) ==
    IF p.type = "ChooseMarch" /\ Contains(p.valid_destinations, KINGS_LANDING)
    THEN [type |-> "March", to |-> KINGS_LANDING,
          unit_indices |-> [i \in 1..Len(s.areas[p.from_area].units) |-> i - 1]]
    ELSE drawn_action(s, p)

InitGarrison ==
    \E pc \in LivePlayerCounts : \E seed \in GarrisonSeeds :
        /\ state = create_initial_state(pc, seed)
        /\ call = Call("create_initial_state", None, None, 0)

ApplyGarrison ==
    /\ call.op = "advance"
    /\ IsNone(state.winner)
    /\ IsSome(state.pending)
    /\ state' = apply_action(state, kings_landing_action(state, Unwrap(state.pending)))
    /\ call' = Call("apply_action", state.pending,
                    Some(kings_landing_action(state, Unwrap(state.pending))), call.answers)

NextGarrison == AdvanceLive \/ ApplyGarrison

SpecGarrison == InitGarrison /\ [][NextGarrison]_vars

(***************************************************************************)
(* Games in which the bids are free: Agent::submit_bid returns any u8,      *)
(* also one above the bidder's power                                        *)
(***************************************************************************)
AuctionSeeds == {7, 400}

AuctionPlayerCounts == {3, 4}

(* the amounts an agent submits: nothing, part of its power, more than any  *)
(* house can hold                                                           *)
BID_AMOUNTS == {0, 2, 25}

(* the games are followed to the end of the Westeros phase of this round    *)
AuctionRound == 3

auction_actions(s, p) ==
    IF p.type = "Bidding"
    THEN { [type |-> "Bid", amount |-> n] : n \in BID_AMOUNTS }
    ELSE { drawn_action(s, p) }

InitAuction ==
    \E pc \in AuctionPlayerCounts : \E seed \in AuctionSeeds :
        /\ state = create_initial_state(pc, seed)
        /\ call = Call("create_initial_state", None, None, 0)

ApplyAuction ==
    /\ call.op = "advance"
    /\ IsNone(state.winner)
    /\ IsSome(state.pending)
    /\ state.round < AuctionRound \/ state.phase = "Westeros"
    /\ \E a \in auction_actions(state, Unwrap(state.pending)) :
          /\ state' = apply_action(state, a)
          /\ call' = Call("apply_action", state.pending, Some(a), call.answers)

NextAuction == AdvanceLive \/ ApplyAuction

SpecAuction == InitAuction /\ [][NextAuction]_vars

(***************************************************************************)
(* navigation::is_move_valid asked about every pair of areas and every      *)
(* playing house, on the boards of games that are played for a few rounds   *)
(***************************************************************************)
NavigationSeeds == {7}

NavigationPlayerCounts == {3, 6}

(* the boards are those on which the engine asks for a march, in the rounds *)
(* up to this one                                                           *)
NavigationRounds == 2

InitNavigation ==
    \E pc \in NavigationPlayerCounts : \E seed \in NavigationSeeds :
        /\ state = create_initial_state(pc, seed)
        /\ call = Call("create_initial_state", None, None, 0)

(* agents that lay their March tokens on their fleets and send the first    *)
(* ship of a fleet of two or more to the first free sea it can reach        *)
fleet_orders(s, house) ==
    LET march_tokens == <<1, 0, 2>>
        hold_tokens == <<3, 4, 12, 13, 6, 7, 5, 14>>
        areas == unit_areas(s, house)
        Rank(k) == Cardinality({j \in 1..k : is_sea(areas[j])})
        Token(k) ==
            IF is_sea(areas[k]) /\ Rank(k) <= Len(march_tokens)
            THEN march_tokens[Rank(k)]
            ELSE hold_tokens[((k - 1) % Len(hold_tokens)) + 1]
    IN  [type |-> "PlaceOrders", orders |-> [k \in 1..Len(areas) |-> <<areas[k], Token(k)>>]]

fleet_march(s, p) ==
    LET targets == SelectSeq(p.valid_destinations,
                             LAMBDA t : /\ is_sea(t)
                                        /\ IsNone(s.areas[t].house)
                                        /\ s.areas[t].units = <<>>)
    IN  IF targets = <<>> \/ Len(s.areas[p.from_area].units) < 2 THEN [type |-> "MarchSkip"]
        ELSE [type |-> "March", to |-> targets[1], unit_indices |-> <<0>>]

fleet_action(s, p) ==
    CASE p.type = "PlaceOrders" -> fleet_orders(s, p.house)
      [] p.type = "ChooseMarch" -> fleet_march(s, p)
      [] OTHER -> drawn_action(s, p)

ApplyNavigation ==
    /\ call.op = "advance"
    /\ IsNone(state.winner)
    /\ IsSome(state.pending)
    /\ state.round <= NavigationRounds
    /\ state' = apply_action(state, fleet_action(state, Unwrap(state.pending)))
    /\ call' = Call("apply_action", state.pending,
                    Some(fleet_action(state, Unwrap(state.pending))), call.answers)

IsMoveValid ==
    /\ call.op = "advance"
    /\ IsSome(state.pending)
    /\ Unwrap(state.pending).type = "ChooseMarch"
    /\ \E from \in AreaIds : \E to \in AreaIds : \E house \in Range(state.playing_houses) :
          call' = Call("is_move_valid",
                       Some([from |-> from, to |-> to, house |-> house]),
                       Some(is_move_valid(state, from, to, house)), call.answers)
    /\ UNCHANGED state

NextNavigation == AdvanceLive \/ ApplyNavigation \/ IsMoveValid

SpecNavigation == InitNavigation /\ [][NextNavigation]_vars

(***************************************************************************)
(* supply::check_supply_violation on boards set up as the unit tests set    *)
(* them up: a supply level is assigned and units are pushed into, or taken  *)
(* out of, the areas of a house                                             *)
(***************************************************************************)
SupplySeeds == {42}

SupplyPlayerCounts == {6}

SupplyHouses == {"Stark"}

SupplyLevels == 0..6

(* no area is filled beyond this number of units *)
MaxArmySize == 5

InitSupply ==
    \E pc \in SupplyPlayerCounts : \E seed \in SupplySeeds :
        /\ state = create_initial_state(pc, seed)
        /\ call = Call("create_initial_state", None, None, 0)

SetSupply ==
    \E h \in SupplyHouses : \E level \in SupplyLevels :
        /\ state' = [state EXCEPT !.houses[h].supply = level]
        /\ call' = Call("set_supply", None, None, call.answers)

PushUnit ==
    \E h \in SupplyHouses : \E a \in AreaIds :
        /\ state.areas[a].house = Some(h)
        /\ Len(state.areas[a].units) \in 1..(MaxArmySize - 1)
        /\ state' = [state EXCEPT !.areas[a].units = Append(@, Unit("Footman", h))]
        /\ call' = Call("push_unit", None, Some(a), call.answers)

RemoveUnit ==
    \E h \in SupplyHouses : \E a \in AreaIds :
        /\ state.areas[a].house = Some(h)
        /\ Len(state.areas[a].units) >= 2
        /\ state' = [state EXCEPT !.areas[a].units = SubSeq(@, 1, Len(@) - 1)]
        /\ call' = Call("remove_unit", None, Some(a), call.answers)

NextSupply == SetSupply \/ PushUnit \/ RemoveUnit

SpecSupply == InitSupply /\ [][NextSupply]_vars

(***************************************************************************)
(* Six-player games in which Martell plays Doran Martell whenever it can    *)
(* and the demoted house is sent down any of the three tracks               *)
(***************************************************************************)
DoranSeeds == {7}

(* the games are followed up to this round *)
DoranRounds == 4

doran_actions(s, p) ==
    IF p.type = "SelectHouseCard" /\ Contains(p.available_cards, "DoranMartell")
    THEN { [type |-> "SelectCard", card_id |-> "DoranMartell"] }
    ELSE IF p.type = "DoranChooseTrack"
    THEN { [type |-> "DoranChooseTrack", track |-> t] :
              t \in {"IronThrone", "Fiefdoms", "KingsCourt"} }
    ELSE { drawn_action(s, p) }

InitDoran ==
    \E seed \in DoranSeeds :
        /\ state = create_initial_state(6, seed)
        /\ call = Call("create_initial_state", None, None, 0)

ApplyDoran ==
    /\ call.op = "advance"
    /\ IsNone(state.winner)
    /\ IsSome(state.pending)
    /\ state.round <= DoranRounds
    /\ \E a \in doran_actions(state, Unwrap(state.pending)) :
          /\ state' = apply_action(state, a)
          /\ call' = Call("apply_action", state.pending, Some(a), call.answers)

NextDoran == AdvanceLive \/ ApplyDoran

SpecDoran == InitDoran /\ [][NextDoran]_vars

(***************************************************************************)
(* Properties                                                               *)
(***************************************************************************)

(* C1: advance is a no-op whenever a decision is pending or the game has a  *)
(* winner: the state it returns equals the state it was given, also when    *)
(* it is called again on the result.                                        *)
C1_AdvanceIsNoOp ==
    (IsSome(state.pending) \/ IsSome(state.winner)) =>
        /\ advance(state) = state
        /\ advance(advance(state)) = state

(* the driver has called advance while a decision raised in the Westeros    *)
(* phase was pending                                                        *)
C1_Witness ==
    /\ call.op = "advance"
    /\ IsSome(call.answered)
    /\ IsSome(state.pending)
    /\ state.phase = "Westeros"

(* C2: apply_action with an action whose variant does not match the pending *)
(* decision leaves the whole state, the pending decision included, as it    *)
(* was.                                                                     *)
C2_MismatchRejected ==
    [][(call'.op = "apply_action"
            /\ ~Matches(Unwrap(call'.answered), Unwrap(call'.action)))
        => state' = state]_vars

(* C3: whenever a call of advance by the driver has returned, a decision is *)
(* pending or the game has a winner.                                        *)
C3_NeverStuck ==
    call.op = "advance" => (IsSome(state.pending) \/ IsSome(state.winner))

(* advance was called on a state with no pending decision in the Action     *)
(* phase (after a combat was finalized) and raised the next decision        *)
C3_Witness ==
    /\ call.op = "advance"
    /\ IsNone(call.answered)
    /\ IsSome(state.pending)
    /\ state.phase = "Action"

(* the pending decision is the Muster raised by a starred ConsolidatePower  *)
(* order (a Mustering card keeps muster_house_idx above 0 while it asks)    *)
PendingMusterOfOrder ==
    /\ IsSome(state.pending)
    /\ Unwrap(state.pending).type = "Muster"
    /\ state.muster_house_idx = 0

(* C4: the engine stops where it populated pending: when the Muster of a    *)
(* starred ConsolidatePower order is pending, the game is still in the      *)
(* ConsolidatePower step of the Action phase in which it was raised, no     *)
(* round cleanup and no phase change has happened since.                    *)
C4_PendingFreezesEngine ==
    PendingMusterOfOrder =>
        /\ state.phase = "Action"
        /\ state.action_sub_phase = "ConsolidatePower"

Tracks == {"IronThrone", "Fiefdoms", "KingsCourt"}

(* C7: on each of the three tracks the positions of the playing houses are  *)
(* pairwise distinct and are exactly 1..N, N the number of playing houses.  *)
C7_TracksArePermutations ==
    \A track \in Tracks :
        LET hs == Range(state.playing_houses)
        IN  /\ \A h1, h2 \in hs :
                  h1 # h2 => TrackPos(state, h1, track) # TrackPos(state, h2, track)
            /\ {TrackPos(state, h, track) : h \in hs} = 1..Cardinality(hs)

SomeHouseOverSupply ==
    \E h \in Range(state.playing_houses) : check_supply_violation(state, h)

ReconcilePending ==
    IsSome(state.pending) /\ Unwrap(state.pending).type = "Reconcile"

(* C8: after a Reconcile decision has been answered, a Reconcile decision   *)
(* is pending again exactly when some playing house still violates its      *)
(* supply limits: the pass ends only with every house within its limits.    *)
C8_ReconcileUntilSupplied ==
    (call.op = "apply_action" /\ Unwrap(call.answered).type = "Reconcile") =>
        (ReconcilePending <=> SomeHouseOverSupply)

(* two houses were over their limits and the last Reconcile answer ended    *)
(* the pass: the decision answered was not the one raised by the Supply     *)
(* card for the first house in violation                                    *)
C8_Witness ==
    /\ call.op = "apply_action"
    /\ Unwrap(call.answered).type = "Reconcile"
    /\ Unwrap(call.answered).house = "Lannister"
    /\ state.houses["Stark"].available_units.footmen = 9
    /\ ~ReconcilePending
    /\ ~SomeHouseOverSupply

(* the house cards a view names, the public discard piles and the cards     *)
(* played in the combat aside                                               *)
CardsShown(view) ==
    Range(view.my_hand) \cup
    (IF IsNone(view.pending) THEN {}
     ELSE LET p == Unwrap(view.pending)
          IN  CASE p.type = "SelectHouseCard" -> Range(p.available_cards)
                [] p.type = "PatchfaceDiscard" -> Range(p.visible_cards)
                [] OTHER -> {})

(* C9: the view of house X has X's hand as my_hand, reports every house's   *)
(* hand size, and names no card that is in another house's hand.            *)
C9_ViewHidesHands ==
    \A x \in Range(state.playing_houses) :
        LET view == player_view(state, x)
        IN  /\ view.my_hand = state.houses[x].hand
            /\ \A h \in Range(state.playing_houses) :
                  view.house_info[h].cards_in_hand = Len(state.houses[h].hand)
            /\ \A h \in Range(state.playing_houses) \ {x} :
                  CardsShown(view) \cap Range(state.houses[h].hand) = {}

Reverse(seq) == [i \in 1..Len(seq) |-> seq[Len(seq) + 1 - i]]

(* the state with every deck in the opposite order *)
DecksReordered(s) ==
    [s EXCEPT !.westeros_deck_1 = Reverse(@), !.westeros_deck_2 = Reverse(@),
              !.westeros_deck_3 = Reverse(@), !.wildling_deck = Reverse(@)]

(* the state with every bid recorded in the auction in progress set to n *)
BidsReplaced(s, n) ==
    IF IsNone(s.bidding) THEN s
    ELSE [s EXCEPT !.bidding = Some([Unwrap(s.bidding) EXCEPT !.bids = [h \in DOMAIN @ |-> n]])]

BidAmounts == 0..2

(* C11: the view of every house is the same in two states that differ only  *)
(* in the order of the Westeros and wildling decks and in the amounts bid   *)
(* in the auction in progress.                                              *)
C11_ViewIgnoresDecksAndBids ==
    \A x \in Range(state.playing_houses) : \A n \in BidAmounts :
        /\ player_view(DecksReordered(state), x) = player_view(state, x)
        /\ player_view(BidsReplaced(state, n), x) = player_view(state, x)
        /\ player_view(BidsReplaced(DecksReordered(state), n), x) = player_view(state, x)

(* an auction is in progress with a bid of 1 recorded, and the decks are    *)
(* not symmetric                                                            *)
C11_Witness ==
    /\ IsSome(state.bidding)
    /\ \E h \in DOMAIN Unwrap(state.bidding).bids : Unwrap(state.bidding).bids[h] = 1
    /\ BidsReplaced(state, 0) # state
    /\ DecksReordered(state).westeros_deck_1 # state.westeros_deck_1
    /\ DecksReordered(state).wildling_deck # state.wildling_deck

(* C12: the first advance after create_initial_state leaves PlaceOrders     *)
(* pending for turn_order[0], the playing house with the best Iron Throne   *)
(* position, in the Planning phase of round 1.                              *)
C12_FirstPendingIsPlaceOrders ==
    [][(call.op = "create_initial_state" /\ call'.op = "advance") =>
          /\ state'.pending = Some([type |-> "PlaceOrders", house |-> state'.turn_order[1]])
          /\ \A h \in Range(state'.playing_houses) :
                state'.houses[state'.turn_order[1]].iron_throne <= state'.houses[h].iron_throne
          /\ state'.phase = "Planning"
          /\ state'.round = 1]_vars

(* advance has run on the initial state of a six-player game *)
C12_Witness ==
    /\ call.op = "advance"
    /\ Len(state.playing_houses) = 6
    /\ state.round = 1
    /\ state.phase = "Planning"
    /\ \A a \in AreaIds : IsNone(state.areas[a].order)
    /\ IsSome(state.pending)

(* the castle and stronghold areas a house controls *)
CastlesOf(s, h) == {a \in AreaIds : s.areas[a].house = Some(h) /\ has_castle_or_stronghold(a)}

(* C13: whenever a decision is pending, a playing house that controls 7 or  *)
(* more castle/stronghold areas has already been declared: winner is set.   *)
C13_VictoryAtThreshold ==
    (IsSome(state.pending) /\ \E h \in Range(state.playing_houses) :
                                  Cardinality(CastlesOf(state, h)) >= 7)
        => IsSome(state.winner)

(* 2 for every stronghold and 1 for every castle a house controls *)
TiebreakScore(s, h) ==
    2 * Cardinality({a \in AREAS_stronghold : s.areas[a].house = Some(h)})
    + Cardinality({a \in AREAS_castle : s.areas[a].house = Some(h)})

(* h is ahead of g: score, then supply, then power, then Iron Throne *)
AheadOf(s, h, g) ==
    LET hp == s.houses[h]
        gp == s.houses[g]
        hs == TiebreakScore(s, h)
        gs == TiebreakScore(s, g)
    IN  \/ hs > gs
        \/ hs = gs /\ hp.supply > gp.supply
        \/ hs = gs /\ hp.supply = gp.supply /\ hp.power > gp.power
        \/ hs = gs /\ hp.supply = gp.supply /\ hp.power = gp.power
              /\ hp.iron_throne < gp.iron_throne

(* C14: when the round counter passes 10 with no winner declared, the       *)
(* winner is the playing house ahead of every other one (score, supply,     *)
(* power, Iron Throne position), and the Westeros phase is not entered      *)
(* again.                                                                   *)
C14_TiebreakAtRoundLimit ==
    /\ [][(state.round <= 10 /\ state'.round > 10 /\ IsNone(state.winner)) =>
             /\ IsSome(state'.winner)
             /\ \A g \in Range(state'.playing_houses) \ {Unwrap(state'.winner)} :
                   AheadOf(state', Unwrap(state'.winner), g)
             /\ state'.phase # "Westeros"]_vars
    /\ [](state.round > 10 => state.phase # "Westeros")

(* the round limit was passed and the winner is not the house with the most *)
(* castles and strongholds alone: a later key of the order decided          *)
C14_Witness ==
    /\ state.round > 10
    /\ IsSome(state.winner)
    /\ \E g \in Range(state.playing_houses) \ {Unwrap(state.winner)} :
          TiebreakScore(state, g) = TiebreakScore(state, Unwrap(state.winner))

PostCombatDecisions ==
    {"Retreat", "RobbRetreat", "CerseiRemoveOrder", "PatchfaceDiscard", "DoranChooseTrack"}

(* the step answered a decision of a combat not yet resolved and the engine *)
(* resolved the combat in the same call of apply_action                     *)
CombatResolvedByStep ==
    /\ call'.op = "apply_action"
    /\ IsSome(state.combat)
    /\ Unwrap(call'.answered).type \notin PostCombatDecisions
    /\ \/ IsNone(state'.combat)
       \/ /\ IsSome(state'.pending)
          /\ Unwrap(state'.pending).type \in PostCombatDecisions

(* the combat as it is resolved: a side with no card left in its hand has   *)
(* been given the placeholder card by the Cards sub-phase                   *)
WithPlaceholderCards(s) ==
    LET c == Unwrap(s.combat)
        Card(card, house) ==
            IF IsNone(card) /\ s.houses[house].hand = <<>> THEN Some("EddardStark") ELSE card
    IN  [s EXCEPT !.combat = Some([c EXCEPT
                                      !.attacker_card = Card(@, c.attacker),
                                      !.defender_card = Card(@, c.defender)])]

(* C15: a resolved combat has exactly one winner. The attacker takes the    *)
(* area if and only if its total is greater than the defender's, or the     *)
(* totals are equal and its Fiefdoms position is strictly lower; in every   *)
(* other case the defender keeps the area.                                  *)
C15_CombatHasOneWinner ==
    [][CombatResolvedByStep =>
          LET c == Unwrap(state.combat)
              mid == WithPlaceholderCards(
                         ApplyArm([state EXCEPT !.pending = None], Unwrap(call'.answered),
                                  Unwrap(call'.action)))
              totals == CombatTotals(mid)
              rule == \/ totals[1] > totals[2]
                      \/ /\ totals[1] = totals[2]
                         /\ mid.houses[c.attacker].fiefdoms < mid.houses[c.defender].fiefdoms
          IN  /\ (state'.areas[c.area_id].house = Some(c.attacker)) <=> rule
              /\ (state'.areas[c.area_id].house = Some(c.defender)) <=> ~rule]_vars

(* a combat was resolved with equal totals and the attacker, ahead on the   *)
(* Fiefdoms track, took the area                                            *)
C15_Witness ==
    /\ IsSome(state.combat)
    /\ IsSome(state.pending)
    /\ Unwrap(state.pending).type \in PostCombatDecisions
    /\ Unwrap(state.combat).attacker_strength = Unwrap(state.combat).defender_strength
    /\ state.areas[Unwrap(state.combat).area_id].house = Some(Unwrap(state.combat).attacker)

(* C16: apply_action with a matching action returns the state with the      *)
(* pending decision cleared and the answer applied, and nothing more: no    *)
(* decision is pending when it returns.                                     *)
C16_ApplyDoesNotAdvance ==
    [][(call'.op = "apply_action"
            /\ Matches(Unwrap(call'.answered), Unwrap(call'.action))) =>
          /\ state' = ApplyArm([state EXCEPT !.pending = None], Unwrap(call'.answered),
                               Unwrap(call'.action))
          /\ IsNone(state'.pending)]_vars

(* C17: for every playing house the hand and the discard pile are disjoint, *)
(* hold no card twice and together are exactly the 7 cards of the house, so *)
(* possible_hand names the cards of the real hand.                          *)
C17_HandIsCardsMinusDiscards ==
    \A h \in Range(state.playing_houses) :
        LET hand == state.houses[h].hand
            discards == state.houses[h].discards
            own == Range(all_house_card_ids(h))
        IN  /\ Range(hand) \cap Range(discards) = {}
            /\ Range(hand) \cup Range(discards) = own
            /\ Len(hand) + Len(discards) = Cardinality(own)
            /\ Range(possible_hand(state, h)) = Range(hand)

(* the edges of the phase graph that keep the round, and the one that ends it *)
PHASE_EDGES ==
    { <<"Planning", "Action">>, <<"Action", "Combat">>, <<"Combat", "Action">>,
      <<"Westeros", "Planning">> }

ROUND_EDGE == <<"Action", "Westeros">>

(* the phases a path of PHASE_EDGES leads to from the phases of `from` *)
RECURSIVE PhaseClosure(_)
PhaseClosure(from) ==
    LET Grown(to) == IF to = from THEN from ELSE PhaseClosure(to)
    IN  Grown(from \cup { e[2] : e \in { e \in PHASE_EDGES : e[1] \in from } })

(* the phases a path leads to from phase p that takes ROUND_EDGE `rounds` times *)
RECURSIVE PhasesAfter(_, _)
PhasesAfter(p, rounds) ==
    IF rounds = 0 THEN PhaseClosure({p})
    ELSE IF ROUND_EDGE[1] \in PhasesAfter(p, rounds - 1)
    THEN PhaseClosure({ROUND_EDGE[2]})
    ELSE {}

(* C18: the game starts in Planning at round 1; from one return of the      *)
(* engine to the next the phase has moved along a path of the edges         *)
(* Planning->Action, Action->Combat, Combat->Action, Westeros->Planning and *)
(* Action->Westeros, the round having grown by one for each Action->Westeros*)
(* edge on the path (at the round limit the round grows with no phase       *)
(* change); so no state is in Westeros before round 2.                      *)
C18_PhaseEdges ==
    /\ [](call.op = "create_initial_state" =>
              state.phase = "Planning" /\ state.round = 1)
    /\ [](state.phase = "Westeros" => state.round >= 2)
    /\ [][\/ /\ state'.round = state.round
             /\ state'.phase \in PhasesAfter(state.phase, 0)
          \/ /\ state'.round = state.round + 1
             /\ state'.round <= 10
             /\ state'.phase \in PhasesAfter(state.phase, 1)
          \/ /\ state'.round = state.round + 1
             /\ state'.round > 10
             /\ state'.phase = ROUND_EDGE[1]
             /\ ROUND_EDGE[1] \in PhasesAfter(state.phase, 0)]_vars

(* the first Westeros phase: a decision of round 2 is pending in it *)
C18_Witness ==
    /\ state.phase = "Westeros"
    /\ state.round = 2
    /\ IsSome(state.pending)

(* the place of a combat sub-phase in the order of advance_combat *)
CombatPhaseRank(ph) ==
    CASE ph = "Support" -> 1 [] ph = "Cards" -> 2 [] ph = "PreCombat" -> 3
      [] ph = "Resolution" -> 4 [] ph = "PostCombat" -> 5

(* the sub-phases in which advance_combat asks for a decision of type t *)
CombatPhasesAsking(t) ==
    CASE t = "SupportDeclaration" -> {"Support"}
      [] t = "SelectHouseCard" -> {"Cards"}
      [] t \in {"TyrionReplace", "AeronSwap"} -> {"PreCombat"}
      [] t = "UseValyrianBlade" -> {"PostCombat"}
      [] t \in PostCombatDecisions -> {"PostCombat"}
      [] OTHER -> {}

(* a house other than the two combatants has a Support order next to the    *)
(* embattled area                                                           *)
ThirdPartySupport(s, c) ==
    \E adj \in Range(adjacent(c.area_id)) :
        /\ OrderIs(s.areas[adj], "Support")
        /\ IsSome(s.areas[adj].house)
        /\ Unwrap(s.areas[adj].house) \notin {c.attacker, c.defender}

(* C19: a combat starts in Support when a third house has a Support order   *)
(* next to the area and in Cards otherwise; from one return of the engine   *)
(* to the next its sub-phase never moves back in the order Support, Cards,  *)
(* PreCombat, Resolution, PostCombat, the answer to a Tyrion cancellation   *)
(* included; each decision of a combat is asked in its own sub-phase, and   *)
(* a combat whose Tyrion or Aeron step is done is in PreCombat or later;    *)
(* the total strengths are still 0 in every sub-phase before PostCombat.    *)
C19_CombatPhasesForward ==
    /\ [][/\ (IsSome(state.combat) /\ IsSome(state'.combat)) =>
                CombatPhaseRank(Unwrap(state'.combat).phase)
                    >= CombatPhaseRank(Unwrap(state.combat).phase)
          /\ (IsNone(state.combat) /\ IsSome(state'.combat)
                  /\ Unwrap(state'.combat).phase \in {"Support", "Cards"}) =>
                (Unwrap(state'.combat).phase = "Support"
                    <=> ThirdPartySupport(state', Unwrap(state'.combat)))]_vars
    /\ [](IsSome(state.combat) =>
            /\ IsSome(state.pending)
            /\ Unwrap(state.combat).phase
                   \in CombatPhasesAsking(Unwrap(state.pending).type)
            /\ ((Unwrap(state.combat).tyrion_resolved \/ Unwrap(state.combat).aeron_resolved)
                   => CombatPhaseRank(Unwrap(state.combat).phase) >= CombatPhaseRank("PreCombat"))
            /\ (Unwrap(state.combat).phase # "PostCombat" =>
                   /\ Unwrap(state.combat).attacker_strength = 0
                   /\ Unwrap(state.combat).defender_strength = 0))

(* the opponent of Tyrion Lannister has named its replacement card and the  *)
(* combat has gone on from PreCombat to PostCombat                          *)
C19_Witness ==
    /\ call.op = "apply_action"
    /\ Unwrap(call.answered).type = "TyrionReplace"
    /\ IsSome(state.combat)
    /\ Unwrap(state.combat).phase = "PostCombat"
    /\ IsSome(Unwrap(state.combat).attacker_card)
    /\ IsSome(Unwrap(state.combat).defender_card)

(* the place of an action sub-phase in the order of advance_action_phase *)
ActionSubPhaseRank(sub) ==
    CASE sub = "Raid" -> 1 [] sub = "March" -> 2 [] sub = "ConsolidatePower" -> 3
      [] sub = "Done" -> 4

(* the areas a house of the turn order controls that hold an order of a type *)
OrderAreas(s, order_type) ==
    { a \in AreaIds : /\ OrderIs(s.areas[a], order_type)
                      /\ \E h \in Range(s.turn_order) : s.areas[a].house = Some(h) }

(* the areas whose order the engine is resolving in state s: the area of    *)
(* the pending ChooseRaid, ChooseMarch or LeavePowerToken decision, and the *)
(* two areas of the combat a march has begun                                *)
AreasInResolution(s) ==
    LET Decided(p) ==
            CASE p.type \in {"ChooseRaid", "ChooseMarch"} -> {p.from_area}
              [] p.type = "LeavePowerToken" -> {p.area_id}
              [] OTHER -> {}
        Fought(c) ==
            {c.area_id} \cup (IF IsSome(c.march_from_area)
                              THEN {Unwrap(c.march_from_area)} ELSE {})
    IN  (IF IsSome(s.pending) THEN Decided(Unwrap(s.pending)) ELSE {})
            \cup (IF IsSome(s.combat) THEN Fought(Unwrap(s.combat)) ELSE {})

(* the decision pending in s asks the house whose turn it is for the order  *)
(* of the sub-phase lying on an area it controls                            *)
AsksForOrder(s, decision, order_type) ==
    LET p == Unwrap(s.pending)
    IN  /\ p.type = decision
        /\ s.phase = "Action"
        /\ s.action_sub_phase = order_type
        /\ p.house = s.turn_order[s.action_player_index + 1]
        /\ s.areas[p.from_area].house = Some(p.house)
        /\ OrderIs(s.areas[p.from_area], order_type)

(* C20: in the action phase of a round the sub-phase never moves back in    *)
(* the order Raid, March, ConsolidatePower, Done (it is set to Raid again   *)
(* when the next planning phase ends); while the engine is in a sub-phase   *)
(* no house of the turn order controls an area with an order of an earlier  *)
(* sub-phase; a ChooseRaid or ChooseMarch decision asks the house whose     *)
(* turn it is about a Raid or March order on an area it controls, its       *)
(* answer takes that order off the board unless a combat or a               *)
(* LeavePowerToken decision still holds it, and a round ends only when      *)
(* the Raid and March orders on controlled areas were all in resolution.    *)
C20_ActionSubPhases ==
    /\ [](state.phase \in {"Action", "Combat"} =>
            \A t \in {"Raid", "March", "ConsolidatePower"} :
                ActionSubPhaseRank(t) < ActionSubPhaseRank(state.action_sub_phase)
                    => OrderAreas(state, t) = {})
    /\ [](IsSome(state.pending) =>
            /\ Unwrap(state.pending).type = "ChooseRaid"
                   => AsksForOrder(state, "ChooseRaid", "Raid")
            /\ Unwrap(state.pending).type = "ChooseMarch"
                   => AsksForOrder(state, "ChooseMarch", "March"))
    /\ [][/\ (state'.round = state.round /\ state.phase \in {"Action", "Combat"}) =>
                ActionSubPhaseRank(state'.action_sub_phase)
                    >= ActionSubPhaseRank(state.action_sub_phase)
          /\ (state'.round = state.round
                  /\ ActionSubPhaseRank(state'.action_sub_phase)
                         < ActionSubPhaseRank(state.action_sub_phase)) =>
                /\ state.phase \in {"Westeros", "Planning"}
                /\ state.action_sub_phase = "Done"
          /\ state'.round # state.round =>
                /\ state'.action_sub_phase = "Done"
                /\ (OrderAreas(state, "Raid") \cup OrderAreas(state, "March"))
                       \subseteq AreasInResolution(state)
          /\ (call'.op = "apply_action"
                  /\ Unwrap(call'.answered).type \in {"ChooseRaid", "ChooseMarch"}
                  /\ Matches(Unwrap(call'.answered), Unwrap(call'.action))) =>
                \/ IsNone(state'.areas[Unwrap(call'.answered).from_area].order)
                \/ /\ IsSome(state'.combat)
                   /\ Unwrap(state'.combat).march_from_area
                          = Some(Unwrap(call'.answered).from_area)
                \/ /\ IsSome(state'.pending)
                   /\ Unwrap(state'.pending).type = "LeavePowerToken"
                   /\ Unwrap(state'.pending).area_id = Unwrap(call'.answered).from_area]_vars

(* the last Raid order of the round was resolved by its house's answer and  *)
(* the engine, in the March sub-phase, asks for the first March order       *)
C20_Witness ==
    /\ call.op = "apply_action"
    /\ Unwrap(call.answered).type = "ChooseRaid"
    /\ state.action_sub_phase = "March"
    /\ IsSome(state.pending)
    /\ Unwrap(state.pending).type = "ChooseMarch"
    /\ OrderAreas(state, "March") # {}

(***************************************************************************)
(* Claims C21..C30                                                          *)
(***************************************************************************)
(* the decision p is one that the resolution of the Westeros card asks for *)
DecisionOfCard(p, card) ==
    CASE p.type = "WesterosChoice" ->
            \/ p.card_name = "A Throne of Blades" /\ card.card_type = "AThroneOfBlades"
            \/ p.card_name = "Dark Wings, Dark Words" /\ card.card_type = "DarkWingsDarkWords"
            \/ p.card_name = "Put to the Sword" /\ card.card_type = "PutToTheSword"
      [] p.type = "Bidding" ->
            IF p.bidding_type = "Wildling" THEN card.card_type = "WildlingAttack"
            ELSE card.card_type \in {"ClashOfKings", "DarkWingsDarkWords"}
      [] p.type = "Muster" -> card.card_type \in {"Mustering", "AThroneOfBlades"}
      [] p.type = "Reconcile" -> card.card_type \in {"Supply", "AThroneOfBlades"}
      [] OTHER -> FALSE

(* how far the sub-protocol of the card in resolution has come: the choice, *)
(* then the bids track by track and bidder by bidder, then the musters      *)
(* house by house, then the reconciliations                                 *)
ProtocolRank(s) ==
    LET p == Unwrap(s.pending)
    IN  CASE p.type = "WesterosChoice" -> 0
          [] p.type = "Bidding" ->
                1 + (2 - Len(Unwrap(s.bidding).remaining_tracks)) * 10
                  + Unwrap(s.bidding).next_bidder_idx
          [] p.type = "Muster" -> 100 + s.muster_house_idx
          [] OTHER -> 200

(* C21: once the cards of a Westeros phase are drawn a decision is pending, *)
(* it belongs to the card of deck westeros_step - 1 among the drawn cards,  *)
(* which lie in deck order 1, 2, 3; from one return of the engine to the    *)
(* next westeros_step never falls, and while it stays the same the          *)
(* sub-protocol of the card only moves on (choice, bids, musters,           *)
(* reconciliations), so no card and no step of a card is processed again    *)
(* after an answer; outside the Westeros phase, and in it before the draw,  *)
(* no card is drawn and no auction or mustering is open.                    *)
C21_WesterosCardsOnce ==
    /\ []((state.phase = "Westeros" /\ state.westeros_step # 0) =>
            /\ IsSome(state.pending)
            /\ state.westeros_step \in 2..4
            /\ Len(state.westeros_cards_drawn) >= state.westeros_step - 1
            /\ \A k \in 1..Len(state.westeros_cards_drawn) :
                   state.westeros_cards_drawn[k].deck = k
            /\ DecisionOfCard(Unwrap(state.pending),
                              state.westeros_cards_drawn[state.westeros_step - 1]))
    /\ []((state.phase # "Westeros" \/ state.westeros_step = 0) =>
            /\ state.westeros_cards_drawn = <<>>
            /\ state.westeros_step = 0
            /\ IsNone(state.bidding)
            /\ state.muster_house_idx = 0)
    /\ [][(state.phase = "Westeros" /\ state'.phase = "Westeros"
              /\ state'.round = state.round) =>
            /\ state'.westeros_step >= state.westeros_step
            /\ (state'.westeros_step = state.westeros_step
                   /\ call'.op = "apply_action"
                   /\ Matches(Unwrap(call'.answered), Unwrap(call'.action))) =>
                 \/ ProtocolRank(state') > ProtocolRank(state)
                 \/ /\ Unwrap(state.pending).type = "Reconcile"
                    /\ Unwrap(state'.pending).type = "Reconcile"]_vars

(* the card of deck 1 paused for a mustering or a reconciliation, the       *)
(* answer re-entered the phase, and the engine now asks for a later card    *)
C21_Witness ==
    /\ call.op = "apply_action"
    /\ Unwrap(call.answered).type \in {"Muster", "Reconcile"}
    /\ state.phase = "Westeros"
    /\ state.westeros_step >= 3
    /\ IsSome(state.pending)
    /\ Unwrap(state.pending).type \in {"Bidding", "WesterosChoice"}

(* the houses of the turn order that control a unit-occupied area without   *)
(* an order                                                                 *)
HousesNeedingOrders(s) ==
    { h \in Range(s.turn_order) :
        \E a \in AreaIds : /\ s.areas[a].house = Some(h)
                           /\ s.areas[a].units # <<>>
                           /\ IsNone(s.areas[a].order) }

RavenPending(s) == IsSome(s.pending) /\ Unwrap(s.pending).type = "MessengerRaven"

(* C22: the MessengerRaven decision is pending only in the Planning phase,  *)
(* for the house at King's Court position 1, when no house of the turn      *)
(* order lacks an order; the engine raises it only while the raven of the   *)
(* round is unused and marks it used, so it is offered once per Planning    *)
(* phase; the step that leaves Planning is the answer to that decision.     *)
C22_RavenOncePerPlanning ==
    /\ [](RavenPending(state) =>
            /\ state.phase = "Planning"
            /\ state.messenger_raven_used
            /\ state.houses[Unwrap(state.pending).house].kings_court = 1
            /\ HousesNeedingOrders(state) = {})
    /\ [][/\ (RavenPending(state') /\ ~RavenPending(state)) =>
                /\ ~state.messenger_raven_used
                /\ state.phase = "Planning"
                /\ Unwrap(call'.answered).type = "PlaceOrders"
          /\ (RavenPending(state) /\ call'.op = "apply_action"
                  /\ Matches(Unwrap(call'.answered), Unwrap(call'.action))) =>
                /\ state'.phase # "Planning"
                /\ state'.round = state.round
          /\ (state.phase = "Planning" /\ state'.phase # "Planning") =>
                /\ RavenPending(state)
                /\ call'.op = "apply_action"]_vars

(* the house at King's Court position 1 has answered the raven and the      *)
(* Action phase of the round has begun                                      *)
C22_Witness ==
    /\ call.op = "apply_action"
    /\ Unwrap(call.answered).type = "MessengerRaven"
    /\ state.houses[Unwrap(call.answered).house].kings_court = 1
    /\ state.phase = "Action"
    /\ state.round >= 2

(* no order lies on the board, no unit is routed and the per-round usage is *)
(* reset                                                                    *)
RoundCleared(s) ==
    /\ \A a \in AreaIds :
          /\ IsNone(s.areas[a].order)
          /\ \A i \in 1..Len(s.areas[a].units) : ~s.areas[a].units[i].routed
    /\ ~s.valyrian_steel_blade_used
    /\ ~s.messenger_raven_used
    /\ \A h \in Range(s.playing_houses) : s.houses[h].used_order_tokens = <<>>

(* C23: cleanup_round raises the round by exactly 1 and returns a state     *)
(* with no order, no routed unit, both dominance tokens unused, no used     *)
(* order token and both restriction lists empty; the round changes in no    *)
(* other way: whenever the engine returns with another round it is the next *)
(* round, and the board and the per-round usage are as cleanup_round left   *)
(* them (the restrictions of the new round's Westeros cards may be set).    *)
C23_RoundIncrementCleans ==
    /\ [](LET cleaned == cleanup_round(state)
          IN  /\ cleaned.round = state.round + 1
              /\ RoundCleared(cleaned)
              /\ cleaned.order_restrictions = <<>>
              /\ cleaned.star_order_restrictions = <<>>)
    /\ [][state'.round # state.round =>
            /\ state'.round = state.round + 1
            /\ RoundCleared(state')
            /\ (state'.westeros_step = 0 /\ state'.phase # "Planning") =>
                  /\ state'.order_restrictions = <<>>
                  /\ state'.star_order_restrictions = <<>>]_vars

(* a state of the March sub-phase that cleanup_round has everything to      *)
(* clear in: orders on the board, a routed unit, both dominance tokens used *)
(* and a restriction of the round's Westeros cards                          *)
C23_Witness ==
    /\ IsSome(state.pending)
    /\ Unwrap(state.pending).type = "ChooseMarch"
    /\ \E a \in AreaIds : \E i \in 1..Len(state.areas[a].units) :
          state.areas[a].units[i].routed
    /\ state.valyrian_steel_blade_used
    /\ state.messenger_raven_used
    /\ (state.order_restrictions # <<>> \/ state.star_order_restrictions # <<>>)
    /\ ~RoundCleared(state)
    /\ RoundCleared(cleanup_round(state))

(* the units of house h in play: on the board and in its unbuilt pool *)
UnitsInPlay(s, h) ==
    SumSeq([i \in 1..NUM_AREAS |->
               Cardinality({k \in 1..Len(s.areas[i - 1].units) :
                               s.areas[i - 1].units[k].house = h})])
        + s.houses[h].available_units.footmen + s.houses[h].available_units.knights
        + s.houses[h].available_units.ships + s.houses[h].available_units.siege_engines

(* the units of the losing side of combat c that the casualties leave alive *)
Survivors(c, loser) ==
    LET units == IF loser = c.defender THEN c.defending_units ELSE c.attacking_units
        winner_card == IF loser = c.defender THEN c.attacker_card ELSE c.defender_card
        loser_card == IF loser = c.defender THEN c.defender_card ELSE c.attacker_card
        casualties == SaturatingSub(CardPlayed(winner_card).swords,
                                    CardPlayed(loser_card).fortifications)
    IN  Len(units) - Min(casualties, Len(units))

(* C24: when the winner of a combat played Cersei Lannister and the loser   *)
(* has surviving units, the answer to CerseiRemoveOrder is followed by the  *)
(* loser's step before the combat is destroyed: either the combat is still  *)
(* there with the next post-combat decision pending, or the survivors are   *)
(* back on the board or in the loser's pool.                                *)
C24_PostCombatStepsAllRun ==
    [][(call'.op = "apply_action"
           /\ Unwrap(call'.answered).type = "CerseiRemoveOrder"
           /\ Matches(Unwrap(call'.answered), Unwrap(call'.action))
           /\ IsSome(state.combat)) =>
         \/ IsSome(state'.combat)
         \/ UnitsInPlay(state', Unwrap(call'.answered).opponent)
               = UnitsInPlay(state, Unwrap(call'.answered).opponent)
                   + Survivors(Unwrap(state.combat), Unwrap(call'.answered).opponent)]_vars

(* area `to` is one the units of `house` may retreat to from area `from`    *)
RetreatAreaOk(s, from, to, house) ==
    /\ Contains(adjacent(from), to)
    /\ is_land(to)
    /\ ~s.areas[to].blocked
    /\ (IsNone(s.areas[to].house) \/ s.areas[to].house = Some(house))
    /\ \A i \in 1..Len(s.areas[to].units) : s.areas[to].units[i].house = house

(* C25: when the defender answers the Retreat decision of a lost combat the *)
(* chosen area is adjacent to the contested area, land, unblocked, not      *)
(* controlled by another house and free of foreign units, and when          *)
(* apply_action has applied the answer and finalized the combat every       *)
(* surviving defender unit named by the decision is in that area with its   *)
(* routed flag set.                                                         *)
C25_SurvivorsRetreat ==
    [][(call'.op = "apply_action"
           /\ Unwrap(call'.answered).type = "Retreat"
           /\ Matches(Unwrap(call'.answered), Unwrap(call'.action))
           /\ IsSome(state.combat)) =>
         LET p == Unwrap(call'.answered)
             to == Unwrap(call'.action).to
             applied == ApplyArm([state EXCEPT !.pending = None], p, Unwrap(call'.action))
         IN  /\ p.house = Unwrap(state.combat).defender
             /\ p.units # <<>>
             /\ RetreatAreaOk(state, p.from_area, to, p.house)
             /\ IsNone(applied.combat)
             /\ applied.areas[to].units =
                    state.areas[to].units
                        \o [i \in 1..Len(p.units) |-> [p.units[i] EXCEPT !.routed = TRUE]]]_vars

(* the state on which advance_combat runs resolve_combat_final when it     *)
(* gets there from `s` without raising a decision, None when it does not    *)
RECURSIVE ResolutionInput(_)
ResolutionInput(s) ==
    IF IsSome(s.pending) \/ IsSome(s.winner) \/ IsNone(s.combat) \/ s.phase # "Combat"
    THEN None
    ELSE
    LET c == Unwrap(s.combat)
        Placeholder(card_field) == ResolutionInput(SetCombat(s, card_field, Some("EddardStark")))
    IN  CASE c.phase = "Support" ->
               IF c.pending_support_houses # <<>> THEN None
               ELSE ResolutionInput(SetCombat(s, "phase", "Cards"))
          [] c.phase = "Cards" ->
               IF IsNone(c.attacker_card)
               THEN IF s.houses[c.attacker].hand = <<>> THEN Placeholder("attacker_card")
                    ELSE None
               ELSE IF IsNone(c.defender_card)
               THEN IF s.houses[c.defender].hand = <<>> THEN Placeholder("defender_card")
                    ELSE None
               ELSE ResolutionInput(SetCombat(s, "phase", "PreCombat"))
          [] c.phase = "PreCombat" ->
               IF ~c.tyrion_resolved /\ "TyrionLannister" \in {Unwrap(c.attacker_card),
                                                                Unwrap(c.defender_card)}
               THEN None
               ELSE IF ~c.aeron_resolved
                       /\ \/ (c.attacker_card = Some("AeronDamphair")
                                 /\ s.houses[c.attacker].power >= 2)
                          \/ (c.defender_card = Some("AeronDamphair")
                                 /\ s.houses[c.defender].power >= 2)
               THEN None
               ELSE ResolutionInput(
                        SetCombat(SetCombat(SetCombat(s, "tyrion_resolved", TRUE),
                                            "aeron_resolved", TRUE), "phase", "Resolution"))
          [] c.phase = "Resolution" ->
               IF ~s.valyrian_steel_blade_used
                  /\ find_track_holder(s, "Fiefdoms") \in {c.attacker, c.defender}
               THEN None
               ELSE ResolutionInput(SetCombat(s, "phase", "PostCombat"))
          [] c.phase = "PostCombat" -> Some(s)

(* the contested area of combat `c` is the attacker's in state `s`: it is   *)
(* controlled by the attacker and holds the attacking units, after the      *)
(* units found in the area at the start that were not the defender's; none  *)
(* of the defender's units that stood in the area is left                   *)
Conquered(s, c) ==
    /\ s.areas[c.area_id].house = Some(c.attacker)
    /\ s.areas[c.area_id].units =
           SelectSeq(c.defending_units, LAMBDA u : u.house # c.defender) \o c.attacking_units

(* the attacker won the resolved combat of `s`, by its recorded totals *)
AttackerWonRecorded(s) ==
    /\ IsSome(s.combat) /\ IsSome(s.pending)
    /\ Unwrap(s.pending).type \in PostCombatDecisions
    /\ AttackerWins(s, <<Unwrap(s.combat).attacker_strength, Unwrap(s.combat).defender_strength>>)

(* C26: while a combat is open the march order stays on its origin area,    *)
(* and the step that finalizes the combat removes it; when the combat is    *)
(* resolved in favour of the attacker the contested area is controlled by   *)
(* the attacker, holds all the attacking units and none of the defender's   *)
(* units that defended it, and this is still so after every post-combat     *)
(* decision, up to and including the finalized combat.                      *)
C26_ConquestAndMarchOrder ==
    /\ [](IsSome(state.combat) =>
            /\ IsSome(Unwrap(state.combat).march_from_area)
            /\ OrderIs(state.areas[Unwrap(Unwrap(state.combat).march_from_area)], "March"))
    /\ [](AttackerWonRecorded(state) => Conquered(state, Unwrap(state.combat)))
    /\ [][IsSome(state.combat) =>
            LET c == Unwrap(state.combat)
                from == Unwrap(c.march_from_area)
            IN  /\ IsSome(state'.combat) => state'.areas[from].order = state.areas[from].order
                /\ IsNone(state'.combat) => IsNone(state'.areas[from].order)
                /\ AttackerWonRecorded(state) => Conquered(state', c)]_vars
    /\ [][(call'.op = "apply_action" /\ IsSome(call'.answered) /\ IsSome(call'.action)) =>
            LET mid == ApplyArm([state EXCEPT !.pending = None],
                                Unwrap(call'.answered), Unwrap(call'.action))
                input == ResolutionInput(mid)
            IN  IsSome(input) =>
                  /\ state' = resolve_combat_final(Unwrap(input))
                  /\ AttackerWins(Unwrap(input), CombatTotals(Unwrap(input))) =>
                        Conquered(state', Unwrap(Unwrap(input).combat))]_vars

C26_Witness ==
    /\ call.op = "apply_action"
    /\ AttackerWonRecorded(state)
    /\ Unwrap(state.pending).type = "Retreat"
    /\ Conquered(state, Unwrap(state.combat))
    /\ Unwrap(state.combat).defending_units # <<>>
    /\ OrderIs(state.areas[Unwrap(Unwrap(state.combat).march_from_area)], "March")

UnitTypes == {"Footman", "Knight", "Ship", "SiegeEngine"}

CountOfType(units, ut) == Len(SelectSeq(units, LAMBDA u : u.unit_type = ut))

(* the units of the losing side of combat `c` and the number of them the    *)
(* winner's card destroys                                                   *)
LosingUnits(c, attacker_wins) ==
    IF attacker_wins THEN c.defending_units ELSE c.attacking_units

CasualtyCount(c, attacker_wins) ==
    LET winner_card == get_house_card(Unwrap(IF attacker_wins THEN c.attacker_card
                                             ELSE c.defender_card))
        loser_card == get_house_card(Unwrap(IF attacker_wins THEN c.defender_card
                                            ELSE c.attacker_card))
    IN  Min(Len(LosingUnits(c, attacker_wins)),
            Max(0, winner_card.swords - loser_card.fortifications))

NeutralGarrisonAreas == {KINGS_LANDING, THE_EYRIE}

(* strength of a list of units, a siege engine counting `siege` *)
StrengthOfUnits(units, siege) ==
    SumSeq([i \in 1..Len(units) |->
               CASE units[i].unit_type = "Footman" -> 1
                 [] units[i].unit_type = "Knight" -> 2
                 [] units[i].unit_type = "Ship" -> 1
                 [] units[i].unit_type = "SiegeEngine" -> siege])

(* support declared for `side` in state `s`: for every area of that choice  *)
(* the strength of its order plus the strength of the units in it           *)
SupportDeclaredFor(s, side) ==
    LET c == Unwrap(s.combat)
    IN  SumSeq([a \in 1..NUM_AREAS |->
                   IF (a - 1) \in DOMAIN c.support_decisions /\ c.support_decisions[a - 1] = side
                   THEN (IF IsSome(s.areas[a - 1].order)
                         THEN Unwrap(s.areas[a - 1].order).strength ELSE 0)
                        + StrengthOfUnits(s.areas[a - 1].units, 0)
                   ELSE 0])

CardStrengthOf(card) == IF IsSome(card) THEN get_house_card(Unwrap(card)).strength ELSE 0

CatelynBonus(s, house, card) ==
    IF card = Some("CatelynStark") THEN Len(s.houses[house].discards) ELSE 0

AttackerTotal(s) ==
    LET c == Unwrap(s.combat)
    IN  StrengthOfUnits(c.attacking_units,
                        IF has_castle_or_stronghold(c.area_id) THEN 4 ELSE 0)
        + CardStrengthOf(c.attacker_card)
        + Unwrap(s.areas[Unwrap(c.march_from_area)].order).strength
        + SupportDeclaredFor(s, "Attacker")
        + (IF c.attacker_used_blade THEN 1 ELSE 0)
        + CatelynBonus(s, c.attacker, c.attacker_card)

(* the defender's total, the garrison of the area counting `garrison` *)
DefenderTotal(s, garrison) ==
    LET c == Unwrap(s.combat)
    IN  StrengthOfUnits(c.defending_units, 0)
        + CardStrengthOf(c.defender_card)
        + (IF OrderIs(s.areas[c.area_id], "Defense")
           THEN Unwrap(s.areas[c.area_id].order).strength ELSE 0)
        + garrison
        + SupportDeclaredFor(s, "Defender")
        + (IF c.defender_used_blade THEN 1 ELSE 0)
        + CatelynBonus(s, c.defender, c.defender_card)

(* the garrison of the contested area counts when its recorded owner is the *)
(* defender                                                                 *)
OwnedGarrison(s) ==
    LET c == Unwrap(s.combat)
    IN  IF c.area_id \in DOMAIN s.garrisons /\ s.garrisons[c.area_id].house = Some(c.defender)
        THEN s.garrisons[c.area_id].strength ELSE 0

(* as OwnedGarrison, a neutral garrison counting for nobody *)
OwnedNotNeutralGarrison(s) ==
    IF Unwrap(s.combat).area_id \in NeutralGarrisonAreas THEN 0 ELSE OwnedGarrison(s)

(* the totals recorded in the combat while its post-combat decision is      *)
(* pending are <<AttackerTotal, DefenderTotal with Garrison>>               *)
TotalsRecorded(Garrison(_)) ==
    (IsSome(state.combat) /\ IsSome(state.pending)
        /\ Unwrap(state.pending).type \in PostCombatDecisions) =>
       /\ Unwrap(state.combat).attacker_strength = AttackerTotal(state)
       /\ Unwrap(state.combat).defender_strength = DefenderTotal(state, Garrison(state))

(* the totals of the combat the step resolves, if it resolves one, are      *)
(* <<AttackerTotal, DefenderTotal with Garrison>>                           *)
TotalsResolved(Garrison(_)) ==
    (call'.op = "apply_action" /\ IsSome(call'.answered) /\ IsSome(call'.action)) =>
       LET mid == ApplyArm([state EXCEPT !.pending = None],
                           Unwrap(call'.answered), Unwrap(call'.action))
           input == ResolutionInput(mid)
       IN  IsSome(input) =>
             CombatTotals(Unwrap(input)) =
                 << AttackerTotal(Unwrap(input)),
                    DefenderTotal(Unwrap(input), Garrison(Unwrap(input))) >>

(* The totals the engine computes: the attacker total is unit strength (a   *)
(* siege engine 4 when the contested area has a castle or stronghold, else  *)
(* 0) + card strength + march-order modifier + support declared for the     *)
(* attacker + blade bonus + Catelyn discard bonus, and the defender total   *)
(* is unit strength (siege engine 0) + card strength + Defense-order        *)
(* modifier + garrison strength when the garrison's recorded owner is the   *)
(* defender + support declared for the defender + blade bonus + Catelyn     *)
(* discard bonus; the garrisons of King's Landing and The Eyrie are         *)
(* recorded as Baratheon's and Stark's and count for that house.            *)
CombatTotalsAsRecorded ==
    [](TotalsRecorded(OwnedGarrison)) /\ [][TotalsResolved(OwnedGarrison)]_vars

(* C28: in PostCombat the attacker total is unit strength (siege engine 4   *)
(* against a castle or stronghold, else 0) + card strength + march-order    *)
(* modifier + support declared for the attacker + blade bonus + Catelyn     *)
(* discard bonus, and the defender total is unit strength (siege engine 0)  *)
(* + card strength + Defense-order modifier + garrison strength only if the *)
(* garrison's owner is the defender + support declared for the defender +   *)
(* blade bonus + Catelyn discard bonus; a neutral garrison (King's Landing, *)
(* The Eyrie) or a foreign one adds nothing to either side.                 *)
C28_NeutralGarrisonAddsNothing ==
    [](TotalsRecorded(OwnedNotNeutralGarrison))
        /\ [][TotalsResolved(OwnedNotNeutralGarrison)]_vars

(* a combat at King's Landing was resolved with Baratheon defending it *)
KingsLandingDefended ==
    /\ call.op = "apply_action"
    /\ IsSome(state.combat) /\ IsSome(state.pending)
    /\ Unwrap(state.pending).type \in PostCombatDecisions
    /\ Unwrap(state.combat).area_id = KINGS_LANDING
    /\ Unwrap(state.combat).defender = "Baratheon"
    /\ Unwrap(state.combat).defender_strength = DefenderTotal(state, 5)

(* the areas next to the contested area of `c` that hold a Support order    *)
(* and are controlled by a house other than the two combatants              *)
ThirdPartySupportAreas(s, c) ==
    {adj \in Range(adjacent(c.area_id)) :
        /\ OrderIs(s.areas[adj], "Support")
        /\ IsSome(s.areas[adj].house)
        /\ Unwrap(s.areas[adj].house) \notin {c.attacker, c.defender}}

(* those controlled by the combatant `house` *)
OwnSupportAreas(s, c, house) ==
    {adj \in Range(adjacent(c.area_id)) :
        OrderIs(s.areas[adj], "Support") /\ s.areas[adj].house = Some(house)}

(* the areas whose declaration is still to be asked *)
StillAsked(c) == {c.pending_support_houses[i][1] : i \in 1..Len(c.pending_support_houses)}

DecisionsBeforeResolution ==
    {"SupportDeclaration", "SelectHouseCard", "TyrionReplace", "AeronSwap", "UseValyrianBlade"}

(* the combat of `s` is not resolved yet and one of its decisions is asked *)
CombatUndecided(s) ==
    /\ IsSome(s.combat) /\ IsSome(s.pending)
    /\ Unwrap(s.pending).type \in DecisionsBeforeResolution

(* C29: while a combat is not resolved, every adjacent Support area of a    *)
(* third house is either still to be asked, once, or has its declaration    *)
(* recorded, never both, and nothing else is asked or recorded but the      *)
(* combatants' own adjacent Support areas, which are attributed to their    *)
(* owner from the start without a decision; the SupportDeclaration asked is *)
(* the first one still to be asked, in the Support sub-phase with no card   *)
(* selected; every other decision of the combat, card selection first, is   *)
(* asked only when no declaration is left; answering a declaration records  *)
(* the choice for its area and leaves that area out of those still to be    *)
(* asked, and no area is ever added to them.                                *)
C29_SupportDeclarations ==
    /\ [](CombatUndecided(state) =>
            LET c == Unwrap(state.combat)
                p == Unwrap(state.pending)
                third == ThirdPartySupportAreas(state, c)
                own == OwnSupportAreas(state, c, c.attacker)
                          \cup OwnSupportAreas(state, c, c.defender)
            IN  /\ \A adj \in OwnSupportAreas(state, c, c.attacker) :
                      adj \in DOMAIN c.support_decisions
                         /\ c.support_decisions[adj] = "Attacker"
                /\ \A adj \in OwnSupportAreas(state, c, c.defender) :
                      adj \in DOMAIN c.support_decisions
                         /\ c.support_decisions[adj] = "Defender"
                /\ DOMAIN c.support_decisions \subseteq third \cup own
                /\ StillAsked(c) \cup (DOMAIN c.support_decisions \ own) = third
                /\ StillAsked(c) \cap DOMAIN c.support_decisions = {}
                /\ Cardinality(StillAsked(c)) = Len(c.pending_support_houses)
                /\ \A i \in 1..Len(c.pending_support_houses) :
                      state.areas[c.pending_support_houses[i][1]].house
                          = Some(c.pending_support_houses[i][2])
                /\ p.type = "SupportDeclaration" =>
                      /\ c.phase = "Support"
                      /\ c.pending_support_houses # <<>>
                      /\ p.area_id = c.pending_support_houses[1][1]
                      /\ p.house = c.pending_support_houses[1][2]
                      /\ IsNone(c.attacker_card) /\ IsNone(c.defender_card)
                /\ p.type # "SupportDeclaration" =>
                      c.phase # "Support" /\ c.pending_support_houses = <<>>)
    /\ [][(CombatUndecided(state) /\ IsSome(state'.combat)) =>
            LET c == Unwrap(state.combat)
                d == Unwrap(state'.combat)
                p == Unwrap(state.pending)
                answered == call'.op = "apply_action" /\ p.type = "SupportDeclaration"
                               /\ Matches(p, Unwrap(call'.action))
            IN  /\ StillAsked(d) \subseteq StillAsked(c)
                /\ answered =>
                      /\ StillAsked(d) = StillAsked(c) \ {p.area_id}
                      /\ DOMAIN d.support_decisions = DOMAIN c.support_decisions \cup {p.area_id}
                      /\ d.support_decisions[p.area_id] = Unwrap(call'.action).choice
                      /\ \A a \in DOMAIN c.support_decisions :
                            d.support_decisions[a] = c.support_decisions[a]
                /\ ~answered => d.support_decisions = c.support_decisions]_vars

(* the declaration of the third house next to the contested area was asked *)
(* and answered, and the first card is being selected                       *)
C29_Witness ==
    /\ call.op = "apply_action"
    /\ CombatUndecided(state)
    /\ Unwrap(state.pending).type = "SelectHouseCard"
    /\ Unwrap(call.answered).type = "SupportDeclaration"
    /\ LET c == Unwrap(state.combat)
       IN  /\ ThirdPartySupportAreas(state, c) # {}
           /\ ThirdPartySupportAreas(state, c) \subseteq DOMAIN c.support_decisions

(* the flag `field` of the open combat of `s`, FALSE when there is none *)
CombatFlag(s, field) == IsSome(s.combat) /\ Unwrap(s.combat)[field]

AsksFor(s, type) == IsSome(s.pending) /\ Unwrap(s.pending).type = type

(* C30: a TyrionReplace decision is pending only in PreCombat, with the     *)
(* cancelled card taken back and the Aeron step not yet done, and an        *)
(* AeronSwap decision only in PreCombat with the Tyrion step done and both  *)
(* cards selected: the Tyrion cancellation comes first; the step that       *)
(* raises either decision finds its flag unset and sets it, and a set flag  *)
(* stays set as long as the combat is open, so that each decision is raised *)
(* at most once in a combat; a combat in Resolution or PostCombat, and      *)
(* every combat the engine resolves, has a selected card on both sides and  *)
(* both steps done.                                                         *)
C30_TyrionThenAeron ==
    /\ [](AsksFor(state, "TyrionReplace") =>
            /\ IsSome(state.combat)
            /\ Unwrap(state.combat).phase = "PreCombat"
            /\ Unwrap(state.combat).tyrion_resolved
            /\ ~Unwrap(state.combat).aeron_resolved
            /\ LET c == Unwrap(state.combat)
                   opponent == Unwrap(state.pending).opponent
               IN  /\ opponent \in {c.attacker, c.defender}
                   /\ IsNone(IF opponent = c.attacker THEN c.attacker_card ELSE c.defender_card)
                   /\ (IF opponent = c.attacker THEN c.defender_card ELSE c.attacker_card)
                         = Some("TyrionLannister"))
    /\ [](AsksFor(state, "AeronSwap") =>
            /\ IsSome(state.combat)
            /\ Unwrap(state.combat).phase = "PreCombat"
            /\ Unwrap(state.combat).tyrion_resolved
            /\ Unwrap(state.combat).aeron_resolved
            /\ LET c == Unwrap(state.combat)
                   house == Unwrap(state.pending).house
               IN  /\ IsSome(c.attacker_card) /\ IsSome(c.defender_card)
                   /\ (IF house = c.attacker THEN c.attacker_card ELSE c.defender_card)
                         = Some("AeronDamphair"))
    /\ [](IsSome(state.combat)
             /\ Unwrap(state.combat).phase \in {"Resolution", "PostCombat"} =>
            /\ IsSome(Unwrap(state.combat).attacker_card)
            /\ IsSome(Unwrap(state.combat).defender_card)
            /\ Unwrap(state.combat).tyrion_resolved
            /\ Unwrap(state.combat).aeron_resolved)
    /\ [][call'.op = "apply_action" =>
            /\ AsksFor(state', "TyrionReplace") =>
                  ~CombatFlag(state, "tyrion_resolved") /\ ~AsksFor(state, "AeronSwap")
            /\ AsksFor(state', "AeronSwap") => ~CombatFlag(state, "aeron_resolved")
            /\ (IsSome(state.combat) /\ IsSome(state'.combat)) =>
                  /\ CombatFlag(state, "tyrion_resolved") => CombatFlag(state', "tyrion_resolved")
                  /\ CombatFlag(state, "aeron_resolved") => CombatFlag(state', "aeron_resolved")
            /\ (IsSome(call'.answered) /\ IsSome(call'.action)) =>
                  LET input == ResolutionInput(
                                   ApplyArm([state EXCEPT !.pending = None],
                                            Unwrap(call'.answered), Unwrap(call'.action)))
                  IN  IsSome(input) =>
                        /\ IsSome(Unwrap(Unwrap(input).combat).attacker_card)
                        /\ IsSome(Unwrap(Unwrap(input).combat).defender_card)
                        /\ Unwrap(Unwrap(input).combat).tyrion_resolved
                        /\ Unwrap(Unwrap(input).combat).aeron_resolved]_vars

(* the opponent of Tyrion Lannister has chosen its new card and the combat  *)
(* has gone on to its resolution                                            *)
C30_Witness ==
    /\ call.op = "apply_action"
    /\ Unwrap(call.answered).type = "TyrionReplace"
    /\ IsSome(state.combat)
    /\ Unwrap(state.combat).phase = "PostCombat"
    /\ IsSome(Unwrap(state.combat).attacker_card)
    /\ IsSome(Unwrap(state.combat).defender_card)

(***************************************************************************)
(* Claims C31..C40                                                         *)
(***************************************************************************)

(* the house the blade is offered to: the first playing house at Fiefdoms   *)
(* position 1, the first house in turn order when no playing house is there *)
BladeHolder(s) ==
    IF \E i \in 1..Len(s.playing_houses) : s.houses[s.playing_houses[i]].fiefdoms = 1
    THEN s.playing_houses[CHOOSE i \in 1..Len(s.playing_houses) :
                             /\ s.houses[s.playing_houses[i]].fiefdoms = 1
                             /\ \A j \in 1..(i - 1) : s.houses[s.playing_houses[j]].fiefdoms # 1]
    ELSE s.turn_order[1]

(* the last call answered the blade decision with use_it = TRUE *)
BladeJustUsed ==
    /\ call.op = "apply_action"
    /\ IsSome(call.answered) /\ IsSome(call.action)
    /\ Unwrap(call.answered).type = "UseValyrianBlade"
    /\ Unwrap(call.action).type = "UseValyrianBlade"
    /\ Unwrap(call.action).use_it

BidAnswered ==
    /\ call'.op = "apply_action"
    /\ AsksFor(state, "Bidding")
    /\ IsSome(state.bidding)
    /\ Unwrap(call'.action).type = "Bid"

(* the bid of house h once the submitted amount of the pending house is     *)
(* recorded: the submitted amount cut to the power the house holds now      *)
BidRecorded(s, h, amount) ==
    IF h = Unwrap(s.pending).house
    THEN IF amount <= s.houses[h].power THEN amount ELSE s.houses[h].power
    ELSE BidOf(Unwrap(s.bidding), h)

LastBidder(s) ==
    Unwrap(s.bidding).next_bidder_idx + 1 = Len(Unwrap(s.bidding).bid_order)

(* what a wildling auction leaves of a power that paid its bid: the winner  *)
(* gains 2, the losers lose up to 2 more, never below zero                  *)
WildlingOutcomes(paid) ==
    {paid + 2, paid, IF paid >= 1 THEN paid - 1 ELSE 0, IF paid >= 2 THEN paid - 2 ELSE 0}

(* C32: every recorded bid is min(submitted amount, the bidder's power when *)
(* it bids) and no recorded bid exceeds its bidder's power; when the last   *)
(* bidder of a track has answered, every bidder's power is its power minus  *)
(* its recorded bid, which is not negative, and the auction of the next     *)
(* track starts with no bid recorded, so that its bids are cut to the power *)
(* that remains; a wildling auction deducts the recorded bids as well.      *)
C32_BidsClamped ==
    /\ [](/\ \A h \in DOMAIN state.houses : state.houses[h].power >= 0
          /\ IsSome(state.bidding) =>
                \A h \in DOMAIN Unwrap(state.bidding).bids :
                    Unwrap(state.bidding).bids[h] <= state.houses[h].power)
    /\ [][BidAnswered =>
            LET b == Unwrap(state.bidding)
                p == Unwrap(state.pending)
                amount == Unwrap(call'.action).amount
                bidders == Range(b.bid_order)
            IN  /\ ~LastBidder(state) =>
                      /\ IsSome(state'.bidding)
                      /\ DOMAIN Unwrap(state'.bidding).bids = DOMAIN b.bids \cup {p.house}
                      /\ \A h \in DOMAIN Unwrap(state'.bidding).bids :
                            Unwrap(state'.bidding).bids[h] = BidRecorded(state, h, amount)
                      /\ Unwrap(state'.bidding).current_track = b.current_track
                      /\ \A h \in DOMAIN state.houses :
                            state'.houses[h].power = state.houses[h].power
                /\ LastBidder(state) /\ IsSome(b.current_track) =>
                      /\ \A h \in bidders :
                            /\ BidRecorded(state, h, amount) <= state.houses[h].power
                            /\ state'.houses[h].power
                                  = state.houses[h].power - BidRecorded(state, h, amount)
                      /\ b.remaining_tracks # <<>> =>
                            /\ IsSome(state'.bidding)
                            /\ Unwrap(state'.bidding).current_track = Some(b.remaining_tracks[1])
                            /\ DOMAIN Unwrap(state'.bidding).bids = {}
                /\ LastBidder(state) /\ IsNone(b.current_track) =>
                      \A h \in bidders :
                          /\ BidRecorded(state, h, amount) <= state.houses[h].power
                          /\ state'.houses[h].power \in
                                WildlingOutcomes(state.houses[h].power
                                                    - BidRecorded(state, h, amount))]_vars

(* a bid above the power that remained after an earlier track was paid has  *)
(* been recorded as that remaining power                                    *)
C32_Witness ==
    /\ call.op = "apply_action"
    /\ IsSome(call.answered) /\ Unwrap(call.answered).type = "Bidding"
    /\ Unwrap(call.answered).track \in {Some("Fiefdoms"), Some("KingsCourt")}
    /\ IsSome(state.bidding)
    /\ Unwrap(state.bidding).current_track = Unwrap(call.answered).track
    /\ LET h == Unwrap(call.answered).house
       IN  /\ h \in DOMAIN Unwrap(state.bidding).bids
           /\ Unwrap(call.action).amount > state.houses[h].power
           /\ Unwrap(state.bidding).bids[h] = state.houses[h].power
           /\ state.houses[h].power \in 1..4

(***************************************************************************)
(* C33: resolution of a track auction                                       *)
(***************************************************************************)
OtherTracks(track) == {"IronThrone", "Fiefdoms", "KingsCourt"} \ {track}

(* C33: when the last bidder of a track auction has answered, the bidders   *)
(* hold the positions 1..N of that track, one each; a bidder with a         *)
(* strictly higher recorded bid is ahead of one with a lower bid; of two    *)
(* bidders with equal bids the one that was ahead is still ahead; every     *)
(* bidder's power is its power less its recorded bid; every house's         *)
(* position on the other two tracks is as before.                           *)
C33_TrackAuctionResolved ==
    [][BidAnswered /\ LastBidder(state) /\ IsSome(Unwrap(state.bidding).current_track) =>
          LET b == Unwrap(state.bidding)
              track == Unwrap(b.current_track)
              amount == Unwrap(call'.action).amount
              bidders == Range(b.bid_order)
              bid(h) == BidRecorded(state, h, amount)
          IN  /\ {TrackPos(state', h, track) : h \in bidders} = 1..Cardinality(bidders)
              /\ \A h1, h2 \in bidders :
                    /\ h1 # h2 => TrackPos(state', h1, track) # TrackPos(state', h2, track)
                    /\ bid(h1) > bid(h2) =>
                          TrackPos(state', h1, track) < TrackPos(state', h2, track)
                    /\ bid(h1) = bid(h2)
                          /\ TrackPos(state, h1, track) < TrackPos(state, h2, track) =>
                          TrackPos(state', h1, track) < TrackPos(state', h2, track)
              /\ \A h \in bidders :
                    state'.houses[h].power = state.houses[h].power - bid(h)
              /\ \A h \in DOMAIN state.houses : \A other \in OtherTracks(track) :
                    TrackPos(state', h, other) = TrackPos(state, h, other)]_vars

(* the last bid of the Fiefdoms auction has been answered and the auction   *)
(* resolved: the King's Court auction has started, one house holds Fiefdoms *)
(* position 1 having paid more than two others, and those two, left with    *)
(* equal power, stand on the Fiefdoms track in the order opposite to their  *)
(* Iron Throne order                                                        *)
C33_Witness ==
    /\ call.op = "apply_action"
    /\ IsSome(call.answered) /\ Unwrap(call.answered).type = "Bidding"
    /\ Unwrap(call.answered).track = Some("Fiefdoms")
    /\ IsSome(state.bidding)
    /\ Unwrap(state.bidding).current_track = Some("KingsCourt")
    /\ \E h1, h2, h3 \in Range(state.playing_houses) :
          /\ state.houses[h1].fiefdoms = 1
          /\ state.houses[h2].fiefdoms < state.houses[h3].fiefdoms
          /\ state.houses[h2].iron_throne > state.houses[h3].iron_throne
          /\ state.houses[h2].power = state.houses[h3].power
          /\ state.houses[h1].power < state.houses[h2].power

(***************************************************************************)
(* C34: is_move_valid                                                       *)
(***************************************************************************)
(* a chain of pairwise-adjacent seas of `seas`, no sea twice, that starts   *)
(* with `sea` and whose last sea is adjacent to `to`                        *)
RECURSIVE ChainReaches(_, _, _)
ChainReaches(seas, sea, to) ==
    \/ Contains(adjacent(sea), to)
    \/ \E next \in seas \ {sea} :
          /\ Contains(adjacent(sea), next)
          /\ ChainReaches(seas \ {sea}, next, to)

(* the sea areas holding at least one ship of the house *)
SeasWithShip(s, house) ==
    {a \in AreaIds : is_sea(a) /\ \E i \in 1..Len(s.areas[a].units) :
                                    /\ s.areas[a].units[i].unit_type = "Ship"
                                    /\ s.areas[a].units[i].house = house}

ShipTransport(s, from, to, house) ==
    /\ is_land(from)
    /\ ~is_sea(to)
    /\ \E first \in SeasWithShip(s, house) :
          /\ Contains(adjacent(from), first)
          /\ ChainReaches(SeasWithShip(s, house), first, to)

MoveValidAsked == call.op = "is_move_valid"

ArmyAreas(s, house) ==
    {a \in AreaIds : s.areas[a].house = Some(house) /\ Len(s.areas[a].units) >= 2}

(* the i-th largest army is larger than n: at least i armies are *)
LargestExceeds(s, house, i, n) ==
    Cardinality({a \in ArmyAreas(s, house) : Len(s.areas[a].units) > n}) >= i

SupplySlots(s, house) ==
    LET level == IF s.houses[house].supply <= 6 THEN s.houses[house].supply ELSE 6
    IN  supply_limits(level)

SupplyExceeded(s, house) ==
    \/ Cardinality(ArmyAreas(s, house)) > Len(SupplySlots(s, house))
    \/ \E i \in 1..Len(SupplySlots(s, house)) :
          /\ i <= Cardinality(ArmyAreas(s, house))
          /\ LargestExceeds(s, house, i, SupplySlots(s, house)[i])

(* C35: check_supply_violation(house) is true exactly when the house has    *)
(* more armies (controlled areas of 2 or more units) than its supply level  *)
(* has slots, or its i-th largest army exceeds the i-th slot; at supply     *)
(* level 0 a house with an army of 3 units is in violation, and when that   *)
(* is its only army, taking one unit out of it ends the violation.          *)
C35_SupplyViolation ==
    /\ [](\A h \in Range(state.playing_houses) :
            /\ check_supply_violation(state, h) <=> SupplyExceeded(state, h)
            /\ state.houses[h].supply = 0
                  /\ (\E a \in ArmyAreas(state, h) : Len(state.areas[a].units) = 3)
                  => check_supply_violation(state, h))
    /\ [][\A h \in Range(state.playing_houses) : \A a \in AreaIds :
            /\ call'.op = "remove_unit" /\ call'.action = Some(a)
            /\ state.houses[h].supply = 0
            /\ ArmyAreas(state, h) = {a}
            /\ Len(state.areas[a].units) = 3
            => check_supply_violation(state, h) /\ ~check_supply_violation(state', h)]_vars

(* at supply level 0 the only army of the house, one of 3 units, has just   *)
(* lost a unit                                                              *)
C35_Witness ==
    /\ call.op = "remove_unit"
    /\ \E h \in SupplyHouses :
          /\ state.houses[h].supply = 0
          /\ ArmyAreas(state, h) = {Unwrap(call.action)}
          /\ Len(state.areas[Unwrap(call.action)].units) = 2
          /\ ~check_supply_violation(state, h)

(***************************************************************************)
(* C36: conservation of units                                               *)
(***************************************************************************)
UnitsOfHouse(units, house, ut) ==
    Len(SelectSeq(units, LAMBDA u : u.house = house /\ u.unit_type = ut))

(* the units of the house and type in the areas of the board *)
UnitsOnBoard(s, house, ut) ==
    SumSeq([i \in 1..NUM_AREAS |-> UnitsOfHouse(s.areas[i - 1].units, house, ut)])

(* the attacking units an active combat holds outside the areas *)
UnitsInCombat(s, house, ut) ==
    IF IsSome(s.combat) THEN UnitsOfHouse(Unwrap(s.combat).attacking_units, house, ut) ELSE 0

UnitsOwned(s, house, ut) ==
    UnitsOnBoard(s, house, ut) + UnitsInCombat(s, house, ut)
        + s.houses[house].available_units[PoolField(ut)]

UnitLimit(ut) ==
    CASE ut = "Footman" -> 10 [] ut = "Knight" -> 5 [] ut = "Ship" -> 6 [] ut = "SiegeEngine" -> 2

(* the combat is still waiting for support declarations, cards or card      *)
(* replacements: its attacking units are not yet back on the board          *)
CombatBeforeResolution(s) ==
    IsSome(s.combat) /\ Unwrap(s.combat).phase \in {"Support", "Cards", "PreCombat"}

(* C36: for every playing house and unit type, the units of the house on    *)
(* the board, counting the attacking units of an active combat, plus the    *)
(* units in its pool are 10 footmen, 5 knights, 6 ships and 2 siege engines *)
(* in every state with no combat and in every state of a combat that has    *)
(* not reached its resolution.                                              *)
C36_UnitsConserved ==
    IsNone(state.combat) \/ CombatBeforeResolution(state) =>
        \A h \in Range(state.playing_houses) : \A ut \in UnitTypes :
            UnitsOwned(state, h, ut) = UnitLimit(ut)

(***************************************************************************)
(* C37: the turn order follows the Iron Throne track                        *)
(***************************************************************************)
TurnOrderFollowsThrone(s) ==
    /\ Len(s.turn_order) = Len(s.playing_houses)
    /\ Range(s.turn_order) = Range(s.playing_houses)
    /\ \A i, j \in 1..Len(s.turn_order) :
          i < j => /\ s.turn_order[i] # s.turn_order[j]
                   /\ s.houses[s.turn_order[i]].iron_throne
                         <= s.houses[s.turn_order[j]].iron_throne

ThroneChanged ==
    \E h \in Range(state.playing_houses) :
        state'.houses[h].iron_throne # state.houses[h].iron_throne

(* C37: in every state turn_order holds every playing house exactly once,   *)
(* in ascending order of Iron Throne position; a step that changes an Iron  *)
(* Throne position leaves the turn order sorted by the new positions, and a *)
(* step that changes no Iron Throne position, whatever it does to the other *)
(* two tracks, leaves the turn order as it was.                             *)
C37_TurnOrder ==
    /\ [](TurnOrderFollowsThrone(state))
    /\ [][/\ ThroneChanged => TurnOrderFollowsThrone(state')
          /\ ~ThroneChanged => state'.turn_order = state.turn_order]_vars

(* Doran Martell has just sent a house that was not last down the Iron      *)
(* Throne track: it is now last in the turn order                           *)
C37_Witness ==
    /\ call.op = "apply_action"
    /\ IsSome(call.answered) /\ Unwrap(call.answered).type = "DoranChooseTrack"
    /\ Unwrap(call.action).type = "DoranChooseTrack"
    /\ Unwrap(call.action).track = "IronThrone"
    /\ state.turn_order[Len(state.turn_order)] = Unwrap(call.answered).opponent
    /\ state.houses[Unwrap(call.answered).opponent].iron_throne = Len(state.playing_houses)
    /\ state.turn_order # SortByKey(state.playing_houses, LAMBDA h : TrackPos(create_initial_state(6, state.seed), h, "IronThrone"))

(***************************************************************************)
(* C38: orders are resolved by the house that placed them                   *)
(***************************************************************************)
(* the house that issued the order lying on area a *)
OrderIssuer(s, a) == Unwrap(s.areas[a].order).house

(* the board is one on which advance_action_phase goes on to the            *)
(* ConsolidatePower orders: the answer has been applied, nothing is         *)
(* pending, no combat is open and no house finds a Raid or March order      *)
ConsolidationStarts(s) ==
    /\ s.phase = "Action"
    /\ s.action_sub_phase \in {"Raid", "March", "ConsolidatePower"}
    /\ IsNone(s.pending) /\ IsNone(s.winner) /\ IsNone(s.combat)
    /\ \A h \in Range(s.turn_order) :
          /\ IsNone(find_first_order_area(s, h, "Raid"))
          /\ IsNone(find_first_order_area(s, h, "March"))

(* C38: whenever ChooseRaid or ChooseMarch is pending for house H on        *)
(* from_area, the order on from_area was issued by H; and every             *)
(* ConsolidatePower order that is resolved in favour of the house H         *)
(* controlling its area was issued by H.                                    *)
C38_OrdersResolvedByIssuer ==
    /\ [](AsksFor(state, "ChooseRaid") \/ AsksFor(state, "ChooseMarch") =>
            /\ IsSome(state.areas[Unwrap(state.pending).from_area].order)
            /\ OrderIssuer(state, Unwrap(state.pending).from_area) = Unwrap(state.pending).house)
    /\ [][call'.op = "apply_action" /\ IsSome(state.pending) =>
            LET mid == ApplyArm([state EXCEPT !.pending = None],
                                Unwrap(call'.answered), Unwrap(call'.action))
            IN  ConsolidationStarts(mid) =>
                   \A h \in Range(mid.turn_order) : \A a \in AreaIds :
                       mid.areas[a].house = Some(h)
                          /\ OrderIs(mid.areas[a], "ConsolidatePower")
                          => OrderIssuer(mid, a) = h]_vars

(***************************************************************************)
(* C39: the units of an area belong to its controller                       *)
(***************************************************************************)
UnitsBelongToController(s) ==
    \A a \in AreaIds :
        \A i \in 1..Len(s.areas[a].units) :
            s.areas[a].house = Some(s.areas[a].units[i].house)

(* the call being made answers ChooseMarch with a march of at least one     *)
(* unit into an area that another house controls                            *)
MarchIntoForeignArea ==
    /\ call'.op = "apply_action"
    /\ AsksFor(state, "ChooseMarch")
    /\ Unwrap(call'.action).type = "March"
    /\ Unwrap(call'.action).unit_indices # <<>>
    /\ Contains(Unwrap(state.pending).valid_destinations, Unwrap(call'.action).to)
    /\ IsSome(state.areas[Unwrap(call'.action).to].house)
    /\ state.areas[Unwrap(call'.action).to].house # Some(Unwrap(state.pending).house)

(* C39: in every state with no combat in progress all units of an area      *)
(* belong to the house that controls the area; and a march into an area     *)
(* controlled by another house starts a combat instead of placing units.    *)
C39_UnitsBelongToController ==
    /\ [](IsNone(state.combat) => UnitsBelongToController(state))
    /\ [][MarchIntoForeignArea =>
            IsSome(ApplyArm([state EXCEPT !.pending = None], Unwrap(call'.answered),
                            Unwrap(call'.action)).combat)]_vars

(***************************************************************************)
(* C40: a combatant with an empty hand                                      *)
(***************************************************************************)
(* the card recorded for the house is the placeholder of a skipped          *)
(* selection: Eddard Stark, recorded for a house other than Stark           *)
IsPlaceholder(house, card) == card = Some("EddardStark") /\ house # "Stark"

(* the card the house has played: none when the selection was skipped *)
CardPlayedBy(house, card) == IF IsPlaceholder(house, card) THEN None ELSE card

SwordsOf(card) == IF IsSome(card) THEN get_house_card(Unwrap(card)).swords ELSE 0

FortificationsOf(card) ==
    IF IsSome(card) THEN get_house_card(Unwrap(card)).fortifications ELSE 0

(* the combat with the cards the combatants have played *)
WithCardsPlayed(s) ==
    LET c == Unwrap(s.combat)
    IN  [s EXCEPT !.combat =
            Some([c EXCEPT !.attacker_card = CardPlayedBy(c.attacker, c.attacker_card),
                           !.defender_card = CardPlayedBy(c.defender, c.defender_card)])]

(* the casualties of the losing side by the swords and fortifications of    *)
(* the cards played                                                         *)
CasualtiesOfCardsPlayed(c, attacker_wins) ==
    LET winner_card == IF attacker_wins THEN CardPlayedBy(c.attacker, c.attacker_card)
                       ELSE CardPlayedBy(c.defender, c.defender_card)
        loser_card == IF attacker_wins THEN CardPlayedBy(c.defender, c.defender_card)
                      ELSE CardPlayedBy(c.attacker, c.attacker_card)
    IN  Min(Len(LosingUnits(c, attacker_wins)),
            Max(0, SwordsOf(winner_card) - FortificationsOf(loser_card)))

(* C40: when a combat is resolved in which the card selection of a          *)
(* combatant was skipped because its hand was empty, the totals are those   *)
(* of the combat without a card for that combatant, and the casualties are  *)
(* those of swords and fortifications of the cards that were played.        *)
C40_EmptyHandAddsNothing ==
    [][(call'.op = "apply_action" /\ IsSome(call'.answered) /\ IsSome(call'.action)) =>
         LET mid == ApplyArm([state EXCEPT !.pending = None],
                             Unwrap(call'.answered), Unwrap(call'.action))
             input == ResolutionInput(mid)
         IN  IsSome(input) =>
               LET s == Unwrap(input)
                   c == Unwrap(s.combat)
                   attacker_wins == AttackerWins(s, CombatTotals(s))
               IN  (IsPlaceholder(c.attacker, c.attacker_card)
                       \/ IsPlaceholder(c.defender, c.defender_card)) =>
                      /\ CombatTotals(s) =
                            << AttackerTotal(WithCardsPlayed(s)),
                               DefenderTotal(WithCardsPlayed(s), OwnedGarrison(s)) >>
                      /\ CasualtyCount(c, attacker_wins)
                            = CasualtiesOfCardsPlayed(c, attacker_wins)]_vars

=============================================================================
